---- MODULE Spec2Model ----
(***************************************************************************)
(* Model of the GitLab submission pipeline of gitlab_fetch.py: the media   *)
(* and issue-reference detectors, validate_submission, the date filter,    *)
(* the paginated _get, get_student_date_ranges, format_submissions and the *)
(* run of main through the per-fork extraction loop of fetch_submissions,  *)
(* and of main.py: the side file master_submissions.txt as it is written   *)
(* and read back, and the batch loop over the users it lists.              *)
(*                                                                         *)
(* Text is a sequence of tokens.  A token is one character, except for the *)
(* literals the regular expressions anchor on, which are kept whole:       *)
(* "http://", "/uploads/" and the file extensions ".png", ".mp4", ".txt".  *)
(* Python objects are records; an absent key is an absent field and        *)
(* dict.get(k, d) is Get(r, k, d).                                         *)
(***************************************************************************)
EXTENDS Integers, Sequences, FiniteSets, TLC

VARIABLES pc,            \* position of the run
          sub,           \* the submission dict handed to validate_submission
          submissions,   \* filter_submissions_by_date: the list passed in
          start_date,    \* filter_submissions_by_date: start_date
          end_date,      \* filter_submissions_by_date: end_date
          filtered,      \* filter_submissions_by_date: what the call returned
          printed,       \* lines written to standard output
          student,       \* fetch_submissions: the student argument
          forks,         \* fetch_submissions: the forks being walked
          idx,           \* fetch_submissions: position in the fork loop
          issues,        \* fetch_submissions: the issues being walked
          issue_idx,     \* fetch_submissions: position in the issue loop
          fetched,       \* fetch_submissions: the notes or merge requests a
                         \* request returned, until the loop over them has run
          all_submissions, \* fetch_submissions: the submissions emitted so far
          arg,           \* the argument of the function being called
          ret,           \* what that call returned
          response,      \* fetch_submissions: the pages the server answered
                         \* the last request with, until they are consumed
          get_page,      \* _get: page, the number of the page to ask for
          get_results,   \* _get: all_results, the results gathered so far
          sent,          \* _get: params['page'] of each request sent, in order
          file,          \* master_submissions.txt: its content, <<>> without it
          attempted      \* batch: the users a fetch was attempted for, in order

vars == <<pc, sub, submissions, start_date, end_date, filtered, printed,
          student, forks, idx, issues, issue_idx, fetched, all_submissions,
          arg, ret, response, get_page, get_results, sent, file, attempted>>

Min(S) == CHOOSE x \in S : \A y \in S : x <= y

\* dict.get(key, default)
Get(r, k, d) == IF k \in DOMAIN r THEN r[k] ELSE d

\* Python's `a or b` on strings: the first operand unless it is falsy (empty)
StrOr(a, b) == IF a # <<>> THEN a ELSE b

(***************************************************************************)
(* has_media_attachments                                                   *)
(***************************************************************************)
MediaExt == {".png", ".mp4"}

\* \s
Whitespace == {" ", "\n"}

\* the complement of [^\s<>"]
UrlStop == Whitespace \cup {"<", ">", "\""}

\* the complement of [^\s<>")\]]
UploadStop == UrlStop \cup {")", "]"}

\* (.*?)\) tried right after "](" at j, j+1: "." does not match a newline, so
\* the lazy group ends at the first ")" unless a newline comes before it.
MdCloseAt(t, j) ==
    LET stops == {k \in (j + 2)..Len(t) : t[k] \in {")", "\n"}}
    IN  IF stops = {} THEN 0
        ELSE IF t[Min(stops)] = ")" THEN Min(stops) ELSE 0

\* .*?\]\( tried after "![" at i, i+1: the first "](" from which the rest of
\* the pattern matches, with no newline skipped on the way.
MdBracketAt(t, i) ==
    LET cands == {j \in (i + 2)..(Len(t) - 1) :
                     /\ t[j] = "]"
                     /\ t[j + 1] = "("
                     /\ \A m \in (i + 2)..(j - 1) : t[m] # "\n"
                     /\ MdCloseAt(t, j) # 0}
    IN  IF cands = {} THEN 0 ELSE Min(cands)

\* the match whose "](" is at j and whose closing ")" is at k; none if j = 0
MdCapture(t, j, k) ==
    IF j # 0 THEN [ok |-> TRUE, end |-> k, val |-> SubSeq(t, j + 2, k - 1)]
    ELSE [ok |-> FALSE, end |-> 0, val |-> <<>>]

MdGroup(t, j) == MdCapture(t, j, IF j # 0 THEN MdCloseAt(t, j) ELSE 0)

\* r'!\[.*?\]\((.*?)\)' matched at position i
MarkdownMatch(t, i) ==
    MdGroup(t, IF i + 1 <= Len(t) /\ t[i] = "!" /\ t[i + 1] = "["
               THEN MdBracketAt(t, i) ELSE 0)

\* <prefix>[^stop]+?\.(?:png|...) matched at position i: at least one body
\* character, then the first extension the body can reach.
ExtMatch(t, i, prefix, stop) ==
    LET cands == {k \in (i + 2)..Len(t) :
                     /\ t[k] \in MediaExt
                     /\ \A m \in (i + 1)..(k - 1) : t[m] \notin stop}
    IN  IF i <= Len(t) /\ t[i] = prefix /\ cands # {}
        THEN [ok |-> TRUE, end |-> Min(cands), val |-> SubSeq(t, i, Min(cands))]
        ELSE [ok |-> FALSE, end |-> 0, val |-> <<>>]

\* re.findall: leftmost matches, left to right, never overlapping
\* where the scan resumes after trying position i, and what it collected
ResumeAt(m, i) == IF m.ok THEN m.end + 1 ELSE i + 1
Found(m) == IF m.ok THEN <<m.val>> ELSE <<>>

RECURSIVE MarkdownFindAll(_, _)
MarkdownScan(t, i, m) == Found(m) \o MarkdownFindAll(t, ResumeAt(m, i))

MarkdownFindAll(t, i) ==
    IF i > Len(t) THEN <<>> ELSE MarkdownScan(t, i, MarkdownMatch(t, i))

RECURSIVE ExtFindAll(_, _, _, _)
ExtScan(t, i, prefix, stop, m) ==
    Found(m) \o ExtFindAll(t, ResumeAt(m, i), prefix, stop)

ExtFindAll(t, i, prefix, stop) ==
    IF i > Len(t) THEN <<>> ELSE ExtScan(t, i, prefix, stop, ExtMatch(t, i, prefix, stop))

\* a list without the later repetitions of its elements
RECURSIVE Distinct(_)
Distinct(l) ==
    IF l = <<>> THEN <<>>
    ELSE LET front == Distinct(SubSeq(l, 1, Len(l) - 1))
         IN  IF \E i \in 1..Len(front) : front[i] = l[Len(l)] THEN front
             ELSE Append(front, l[Len(l)])

\* variant: a URL found by two patterns is listed once
media_urls_Deduplicated(text) ==
    Distinct(MarkdownFindAll(text, 1)
                 \o ExtFindAll(text, 1, "http://", UrlStop)
                 \o ExtFindAll(text, 1, "/uploads/", UploadStop))

\* lines 163-178: the three findall results, one after the other
media_urls(text) ==
    MarkdownFindAll(text, 1)
        \o ExtFindAll(text, 1, "http://", UrlStop)
        \o ExtFindAll(text, 1, "/uploads/", UploadStop)

\* return len(media_urls) > 0, media_urls
MediaResult(urls) == [has_media |-> Len(urls) > 0, urls |-> urls]

has_media_attachments(text) ==
    IF text = <<>> THEN [has_media |-> FALSE, urls |-> <<>>]
    ELSE MediaResult(media_urls(text))

(***************************************************************************)
(* has_issue_references                                                    *)
(***************************************************************************)
Digit == {"0", "1", "2"}

DigitValue(c) == CASE c = "0" -> 0 [] c = "1" -> 1 [] c = "2" -> 2

\* int(match)
RECURSIVE IntOf(_)
IntOf(ds) ==
    IF ds = <<>> THEN 0
    ELSE 10 * IntOf(SubSeq(ds, 1, Len(ds) - 1)) + DigitValue(ds[Len(ds)])

\* \d+ is greedy: the whole run of digits starting at i
RECURSIVE DigitRunEnd(_, _)
DigitRunEnd(t, i) ==
    IF i + 1 <= Len(t) /\ t[i + 1] \in Digit THEN DigitRunEnd(t, i + 1) ELSE i

\* r'#(\d+)' from position i on; e is the end of the digit run when a
\* reference starts at i
RECURSIVE IssueFindAll(_, _)
IssueScan(t, i, e) ==
    <<IntOf(SubSeq(t, i + 1, e))>> \o IssueFindAll(t, e + 1)

IssueFindAll(t, i) ==
    IF i > Len(t) THEN <<>>
    ELSE IF t[i] = "#" /\ i + 1 <= Len(t) /\ t[i + 1] \in Digit
         THEN IssueScan(t, i, DigitRunEnd(t, i + 1))
         ELSE IssueFindAll(t, i + 1)

\* if matches: return True, issue_numbers; else False, []
RefsResult(nums) == [has_refs |-> nums # <<>>, nums |-> nums]

\* variant: a number referenced twice is listed once
has_issue_references_Distinct(text) ==
    IF text = <<>> THEN [has_refs |-> FALSE, nums |-> <<>>]
    ELSE RefsResult(Distinct(IssueFindAll(text, 1)))

has_issue_references(text) ==
    IF text = <<>> THEN [has_refs |-> FALSE, nums |-> <<>>]
    ELSE RefsResult(IssueFindAll(text, 1))

(***************************************************************************)
(* validate_submission                                                     *)
(***************************************************************************)
\* A validity reason is the format string and the values put into it.
Reason(text, args) == [text |-> text, args |-> args]

HasAttachment == Reason("Has attachment", <<>>)
MissingAttachment == Reason("Missing attachment", <<>>)
NoIssueReferences == Reason("No issue references found", <<>>)
ReferencesIssues(nums) == Reason("References issue(s) {issue_nums} in description", nums)
LinkedToIssue(n) == Reason("Linked to issue #{issue_number}", <<n>>)
LinkedToGSIssue(n) == Reason("Linked to GS issue #{issue_number}", <<n>>)
LinkedInDatabase(n) == Reason("Linked to {len(addressed_issues)} issue(s) in database", <<n>>)

\* Variant of ValidateComment in which an issue reference makes up for a
\* missing attachment.
ValidateComment_RefsCount(s) ==
    LET comment_text == StrOr(Get(s, "comment_text", <<>>), Get(s, "description", <<>>))
        media == has_media_attachments(comment_text)
        refs == has_issue_references(comment_text)
    IN  [is_valid |-> media.has_media \/ refs.has_refs,
         validity_reasons |->
             <<IF media.has_media THEN HasAttachment ELSE MissingAttachment>>
             \o (IF refs.has_refs THEN <<ReferencesIssues(refs.nums)>> ELSE <<>>)]

\* the COMMENT branch: [is_valid, validity_reasons]
CommentVerdict(s, media, refs, issue_number) ==
        [is_valid |-> media.has_media,
         validity_reasons |->
             <<IF media.has_media THEN HasAttachment ELSE MissingAttachment>>
             \o (IF refs.has_refs THEN <<ReferencesIssues(refs.nums)>> ELSE <<>>)
             \o (IF issue_number # 0
                 THEN IF Get(s, "issue_type", "regular") = "getting_started"
                      THEN <<LinkedToGSIssue(issue_number)>>
                      ELSE <<LinkedToIssue(issue_number)>>
                 ELSE <<>>)]

CommentChecks(s, comment_text) ==
    CommentVerdict(s, has_media_attachments(comment_text),
                   has_issue_references(comment_text), Get(s, "issue_number", 0))

ValidateComment(s) ==
    CommentChecks(s, StrOr(Get(s, "comment_text", <<>>), Get(s, "description", <<>>)))

\* Variant of ValidatePullRequest that forgets to clear is_valid when no
\* issue is referenced.
ValidatePullRequest_MediaOnly(s) ==
    LET pr_description == StrOr(Get(s, "pr_description", <<>>), Get(s, "description", <<>>))
        media == has_media_attachments(pr_description)
        refs == has_issue_references(pr_description)
    IN  [is_valid |-> media.has_media,
         validity_reasons |->
             <<IF media.has_media THEN HasAttachment ELSE MissingAttachment>>
             \o <<IF refs.has_refs THEN ReferencesIssues(refs.nums) ELSE NoIssueReferences>>]

\* the PULL_REQUEST branch: [is_valid, validity_reasons]
PullRequestVerdict(media, refs, addressed_issues) ==
        [is_valid |-> media.has_media /\ refs.has_refs,
         validity_reasons |->
             <<IF media.has_media THEN HasAttachment ELSE MissingAttachment>>
             \o <<IF refs.has_refs THEN ReferencesIssues(refs.nums) ELSE NoIssueReferences>>
             \o (IF addressed_issues # <<>>
                 THEN <<LinkedInDatabase(Len(addressed_issues))>>
                 ELSE <<>>)]

PullRequestChecks(s, pr_description) ==
    PullRequestVerdict(has_media_attachments(pr_description),
                       has_issue_references(pr_description),
                       Get(s, "addressed_issues", <<>>))

ValidatePullRequest(s) ==
    PullRequestChecks(s, StrOr(Get(s, "pr_description", <<>>), Get(s, "description", <<>>)))

\* variant: the reasons are added to those the submission already carries
WithVerdict_Accumulating(s, v) ==
    [is_valid |-> v.is_valid,
     validity_reasons |-> Get(s, "validity_reasons", <<>>) \o v.validity_reasons,
     validity_status |-> IF v.is_valid THEN "VALID" ELSE "INVALID"] @@ s

\* variant: the list of issues a submission addresses is reset
WithVerdict_ResettingIssues(s, v) ==
    [is_valid |-> v.is_valid,
     validity_reasons |-> v.validity_reasons,
     validity_status |-> IF v.is_valid THEN "VALID" ELSE "INVALID",
     addressed_issues |-> <<>>] @@ s

\* variant: the status does not follow the verdict
WithVerdict_AlwaysValid(s, v) ==
    [is_valid |-> v.is_valid,
     validity_reasons |-> v.validity_reasons,
     validity_status |-> "VALID"] @@ s

\* lines 271-276: the three fields validation writes
WithVerdict(s, v) ==
    [is_valid |-> v.is_valid,
     validity_reasons |-> v.validity_reasons,
     validity_status |-> IF v.is_valid THEN "VALID" ELSE "INVALID"] @@ s

validate_submission(s) ==
    WithVerdict(s,
        CASE Get(s, "submission_type", "") = "COMMENT" -> ValidateComment(s)
          [] Get(s, "submission_type", "") = "PULL_REQUEST" -> ValidatePullRequest(s)
          [] OTHER -> [is_valid |-> TRUE, validity_reasons |-> <<>>])

(***************************************************************************)
(* Date strings.  A date string is a sequence of characters.               *)
(***************************************************************************)
Max(S) == CHOOSE x \in S : \A y \in S : x >= y

DecimalDigit == {"0", "1", "2", "3", "4", "5", "6", "7", "8", "9"}

DecimalValue(c) ==
    CASE c = "0" -> 0 [] c = "1" -> 1 [] c = "2" -> 2 [] c = "3" -> 3 [] c = "4" -> 4
      [] c = "5" -> 5 [] c = "6" -> 6 [] c = "7" -> 7 [] c = "8" -> 8 [] c = "9" -> 9

AllDigits(s) == \A i \in 1..Len(s) : s[i] \in DecimalDigit

RECURSIVE NumOf(_)
NumOf(s) ==
    IF s = <<>> THEN 0
    ELSE 10 * NumOf(SubSeq(s, 1, Len(s) - 1)) + DecimalValue(s[Len(s)])

IsLeap(y) == (y % 4 = 0 /\ y % 100 # 0) \/ y % 400 = 0

DaysInMonth(y, m) ==
    IF m = 2 THEN (IF IsLeap(y) THEN 29 ELSE 28)
    ELSE IF m \in {4, 6, 9, 11} THEN 30 ELSE 31

\* datetime(y, m, d, ...) raises ValueError outside these ranges
ValidDate(y, m, d) == y \in 1..9999 /\ m \in 1..12 /\ d \in 1..DaysInMonth(y, m)

\* the result of a parse: a datetime, or the exception raised
DateTime(y, m, d, hh, mi, ss, tz) ==
    [exc |-> "none", year |-> y, month |-> m, day |-> d,
     hour |-> hh, minute |-> mi, second |-> ss, tzinfo |-> tz]

Raise(kind) ==
    [exc |-> kind, year |-> 0, month |-> 0, day |-> 0,
     hour |-> 0, minute |-> 0, second |-> 0, tzinfo |-> <<>>]

\* datetime.strptime(s, '%Y-%m-%d'): four digits, a month of one or two
\* digits, a day of one or two digits (or a space and a digit); the whole
\* string must be consumed and the date must exist.
strptime(s) ==
    LET dashes == {i \in 1..Len(s) : s[i] = "-"}
    IN  IF Cardinality(dashes) # 2 THEN Raise("ValueError")
        ELSE LET Y == SubSeq(s, 1, Min(dashes) - 1)
                 M == SubSeq(s, Min(dashes) + 1, Max(dashes) - 1)
                 D0 == SubSeq(s, Max(dashes) + 1, Len(s))
                 D == IF Len(D0) = 2 /\ D0[1] = " " THEN <<D0[2]>> ELSE D0
                 wellFormed ==
                     /\ Len(Y) = 4 /\ AllDigits(Y)
                     /\ Len(M) \in 1..2 /\ AllDigits(M) /\ NumOf(M) \in 1..12
                     /\ Len(D) \in 1..2 /\ AllDigits(D) /\ NumOf(D) \in 1..31
                     /\ (Len(D0) = 2 /\ D0[1] = " " => D0[2] # "0")
             IN  IF wellFormed /\ ValidDate(NumOf(Y), NumOf(M), NumOf(D))
                 THEN DateTime(NumOf(Y), NumOf(M), NumOf(D), 0, 0, 0, <<>>)
                 ELSE Raise("ValueError")

\* str.replace('Z', '+00:00')
RECURSIVE ReplaceZ(_)
ReplaceZ(s) ==
    IF s = <<>> THEN <<>>
    ELSE (IF Head(s) = "Z" THEN <<"+", "0", "0", ":", "0", "0">> ELSE <<Head(s)>>)
         \o ReplaceZ(Tail(s))

\* two digits below `limit`
TwoDigits(s, limit) == Len(s) = 2 /\ AllDigits(s) /\ NumOf(s) < limit

\* HH[:MM[:SS]]
IsoTime(s) ==
    \/ TwoDigits(s, 24)
    \/ Len(s) = 5 /\ TwoDigits(SubSeq(s, 1, 2), 24) /\ s[3] = ":"
                  /\ TwoDigits(SubSeq(s, 4, 5), 60)
    \/ Len(s) = 8 /\ TwoDigits(SubSeq(s, 1, 2), 24) /\ s[3] = ":"
                  /\ TwoDigits(SubSeq(s, 4, 5), 60) /\ s[6] = ":"
                  /\ TwoDigits(SubSeq(s, 7, 8), 60)

\* +HH:MM or -HH:MM
IsoOffset(s) ==
    Len(s) = 6 /\ s[1] \in {"+", "-"} /\ TwoDigits(SubSeq(s, 2, 3), 24)
               /\ s[4] = ":" /\ TwoDigits(SubSeq(s, 5, 6), 60)

\* datetime.fromisoformat(s) on YYYY-MM-DD[*HH[:MM[:SS]][+HH:MM]]
fromisoformat(s) ==
    LET date == SubSeq(s, 1, 10)
        dateOk ==
            /\ Len(s) >= 10
            /\ AllDigits(SubSeq(s, 1, 4)) /\ s[5] = "-"
            /\ AllDigits(SubSeq(s, 6, 7)) /\ s[8] = "-"
            /\ AllDigits(SubSeq(s, 9, 10))
            /\ ValidDate(NumOf(SubSeq(s, 1, 4)), NumOf(SubSeq(s, 6, 7)),
                         NumOf(SubSeq(s, 9, 10)))
        rest == SubSeq(s, 12, Len(s))
        signs == {i \in 1..Len(rest) : rest[i] \in {"+", "-"}}
        time == IF signs = {} THEN rest ELSE SubSeq(rest, 1, Min(signs) - 1)
        tz == IF signs = {} THEN <<>> ELSE SubSeq(rest, Min(signs), Len(rest))
        F(a, b) == NumOf(SubSeq(time, a, b))
    IN  IF ~dateOk \/ (Len(s) > 10 /\ ~(IsoTime(time) /\ (tz = <<>> \/ IsoOffset(tz))))
        THEN Raise("ValueError")
        ELSE DateTime(NumOf(SubSeq(s, 1, 4)), NumOf(SubSeq(s, 6, 7)),
                      NumOf(SubSeq(s, 9, 10)),
                      IF Len(time) >= 2 THEN F(1, 2) ELSE 0,
                      IF Len(time) >= 5 THEN F(4, 5) ELSE 0,
                      IF Len(time) >= 8 THEN F(7, 8) ELSE 0,
                      tz)

\* datetime.date(): the calendar date, as written (no timezone conversion)
DateOf(dt) == <<dt.year, dt.month, dt.day>>

\* date.__lt__
DateLess(a, b) ==
    \/ a[1] < b[1]
    \/ a[1] = b[1] /\ a[2] < b[2]
    \/ a[1] = b[1] /\ a[2] = b[2] /\ a[3] < b[3]

\* the parse both date functions share: ISO when the string holds a "T"
ParseSubmissionDate(s) ==
    IF \E i \in 1..Len(s) : s[i] = "T" THEN fromisoformat(ReplaceZ(s))
    ELSE strptime(s)

(***************************************************************************)
(* filter_submissions_by_date                                              *)
(***************************************************************************)
InvalidDateWarning(date_str) ==
    [text |-> "Warning: Invalid date format for submission: {submission_date_str}",
     args |-> <<date_str>>]

\* Variant of FilterOutcome that compares datetimes instead of dates, so
\* that the time of day counts against the end bound.
FilterOutcome_DateTime(s, start, end) ==
    LET submission_date_str == Get(s, "submission_date", <<>>)
        submission_date == ParseSubmissionDate(submission_date_str)
        start_dt == strptime(start)
        end_dt == strptime(end)
    IN  IF submission_date_str = <<>> THEN "skip"
        ELSE IF submission_date.exc # "none" THEN submission_date.exc
        ELSE IF start # <<>> /\ start_dt.exc # "none" THEN start_dt.exc
        ELSE IF start # <<>> /\ DateLess(DateOf(submission_date), DateOf(start_dt))
             THEN "skip"
        ELSE IF end # <<>> /\ end_dt.exc # "none" THEN end_dt.exc
        ELSE IF end # <<>>
                /\ \/ DateLess(DateOf(end_dt), DateOf(submission_date))
                   \/ /\ DateOf(end_dt) = DateOf(submission_date)
                      /\ submission_date.hour + submission_date.minute
                             + submission_date.second > 0
             THEN "skip"
        ELSE "keep"

\* One pass of the loop body for submission s: "keep" (appended), "skip"
\* (continue), or the exception raised inside the try block.  The parse
\* of a bound counts only when the checks before it let the submission
\* through.
FilterDecision(submission_date_str, submission_date, start, start_dt, end, end_dt) ==
    IF submission_date_str = <<>> THEN "skip"
    ELSE IF submission_date.exc # "none" THEN submission_date.exc
    ELSE IF start # <<>> /\ start_dt.exc # "none" THEN start_dt.exc
    ELSE IF start # <<>> /\ DateLess(DateOf(submission_date), DateOf(start_dt))
         THEN "skip"
    ELSE IF end # <<>> /\ end_dt.exc # "none" THEN end_dt.exc
    ELSE IF end # <<>> /\ DateLess(DateOf(end_dt), DateOf(submission_date))
         THEN "skip"
    ELSE "keep"

FilterParsed(submission_date_str, start, end) ==
    FilterDecision(submission_date_str, ParseSubmissionDate(submission_date_str),
                   start, strptime(start), end, strptime(end))

FilterOutcome(s, start, end) == FilterParsed(Get(s, "submission_date", <<>>), start, end)

\* Variant of FilterCaught: except TypeError
FilterCaught_TypeErrorOnly == {"TypeError"}

\* except (ValueError, TypeError)
FilterCaught == {"ValueError", "TypeError"}

\* Variant of filter_submissions_by_date without the early return: the loop
\* runs even when no bound is given.
RECURSIVE FilterAlways(_, _, _, _)
FilterAlways(subs, i, acc, out) ==
    IF i > Len(subs) THEN [ret |-> acc, out |-> out, exc |-> "none"]
    ELSE LET o == FilterOutcome(subs[i], <<>>, <<>>)
         IN  IF o = "keep" THEN FilterAlways(subs, i + 1, Append(acc, subs[i]), out)
             ELSE IF o = "skip" THEN FilterAlways(subs, i + 1, acc, out)
             ELSE FilterAlways(subs, i + 1, acc,
                               Append(out, InvalidDateWarning(subs[i].submission_date)))

filter_submissions_by_date_NoShortcut(subs, start, end) ==
    FilterAlways(subs, 1, <<>>, <<>>)

\* the for loop from position i on: [ret, out, exc]
RECURSIVE FilterLoop(_, _, _, _, _, _)

\* the rest of the loop once submission i came out as o
FilterStep(subs, i, start, end, acc, out, o) ==
    IF o \in {"keep", "skip"} \/ o \in FilterCaught
    THEN FilterLoop(subs, i + 1, start, end,
                    IF o = "keep" THEN Append(acc, subs[i]) ELSE acc,
                    IF o \in {"keep", "skip"} THEN out
                    ELSE Append(out, InvalidDateWarning(subs[i].submission_date)))
    ELSE [ret |-> <<>>, out |-> out, exc |-> o]

FilterLoop(subs, i, start, end, acc, out) ==
    IF i > Len(subs) THEN [ret |-> acc, out |-> out, exc |-> "none"]
    ELSE FilterStep(subs, i, start, end, acc, out, FilterOutcome(subs[i], start, end))

\* [ret |-> the list returned, out |-> the lines printed, exc |-> the
\* exception that left the function, "none" when it returned]
filter_submissions_by_date(subs, start, end) ==
    IF start = <<>> /\ end = <<>>
    THEN [ret |-> subs, out |-> <<>>, exc |-> "none"]
    ELSE FilterLoop(subs, 1, start, end, <<>>, <<>>)

\* variant: the list passed in is filtered in place
FilterArgumentAfter_InPlace(subs, start, end) ==
    filter_submissions_by_date(subs, start, end).ret

\* the list passed in, as the call leaves it: the loop appends the kept
\* submissions to a list of its own and assigns to nothing it was given
FilterArgumentAfter(subs, start, end) == subs

(***************************************************************************)
(* GitLabAPI._get.  The server's answer to the request for one page is a   *)
(* record: status 200 with the page's results and whether the x-next-page  *)
(* header names a further page, an HTTP error status, or status 0 when     *)
(* the transport failed and there is no response.  A request for a page    *)
(* beyond the last one is answered by the empty list.                      *)
(***************************************************************************)
PageAt(pages, page) ==
    IF page <= Len(pages) THEN pages[page]
    ELSE [status |-> 200, results |-> <<>>, next |-> FALSE]

\* lines 76-88: what is printed for a RequestException
ErrorLines(status) ==
    CASE status = 401 -> <<"Unauthorized (401)", "Make sure your token has 'read_api' scope">>
      [] status = 403 -> <<"Forbidden (403)">>
      [] status = 404 -> <<"Not Found (404)">>
      [] status = 0 -> <<"Error fetching">>
      [] OTHER -> <<"HTTP Error fetching">>

\* variant: a failed page discards the pages fetched before it
GetFailed_Discarding(all_results, out, status) ==
    [ret |-> <<>>, out |-> out \o ErrorLines(status), exc |-> "none"]

\* variant: a failed page is an error of the caller's
GetFailed_Raising(all_results, out, status) ==
    [ret |-> <<>>, out |-> out, exc |-> "RequestException"]

\* lines 75-89: the except clause prints and breaks; line 91 returns what
\* was accumulated
GetFailed(all_results, out, status) ==
    [ret |-> all_results, out |-> out \o ErrorLines(status), exc |-> "none"]

RECURSIVE GetLoop(_, _, _, _)
GetPage(pages, page, all_results, out, r) ==
    IF r.status # 200 THEN GetFailed(all_results, out, r.status)
    ELSE IF r.results = <<>> THEN [ret |-> all_results, out |-> out, exc |-> "none"]
    ELSE IF ~r.next
         THEN [ret |-> all_results \o r.results, out |-> out, exc |-> "none"]
         ELSE GetLoop(pages, page + 1, all_results \o r.results, out)

GetLoop(pages, page, all_results, out) ==
    GetPage(pages, page, all_results, out, PageAt(pages, page))

_get(pages) == GetLoop(pages, 1, <<>>, <<>>)

(***************************************************************************)
(* get_student_date_ranges                                                 *)
(***************************************************************************)
\* date.toordinal(): days since 0001-01-01, that day being 1
DaysBeforeMonth(y, m) ==
    LET before == <<0, 31, 59, 90, 120, 151, 181, 212, 243, 273, 304, 334>>
    IN  before[m] + (IF m > 2 /\ IsLeap(y) THEN 1 ELSE 0)

Ordinal(y, m, d) ==
    365 * (y - 1) + ((y - 1) \div 4) - ((y - 1) \div 100) + ((y - 1) \div 400)
        + DaysBeforeMonth(y, m) + d

\* utcoffset() in minutes of a tzinfo written +HH:MM or -HH:MM
OffsetMinutes(tz) ==
    (IF tz[1] = "-" THEN -1 ELSE 1)
        * (60 * NumOf(SubSeq(tz, 2, 3)) + NumOf(SubSeq(tz, 5, 6)))

\* what two datetimes of the same kind are compared by: the fields as
\* written for naive ones, the UTC instant for aware ones, as
\* <<day, minute of the day, second>>
SortKey(dt) ==
    LET minutes == 60 * dt.hour + dt.minute
                     - (IF dt.tzinfo = <<>> THEN 0 ELSE OffsetMinutes(dt.tzinfo))
    IN  <<Ordinal(dt.year, dt.month, dt.day) + (minutes \div 1440),
          minutes % 1440, dt.second>>

KeyLess(a, b) ==
    \/ a[1] < b[1]
    \/ a[1] = b[1] /\ a[2] < b[2]
    \/ a[1] = b[1] /\ a[2] = b[2] /\ a[3] < b[3]

\* datetime.__lt__ and __gt__ raise TypeError between a naive and an aware
\* datetime
Comparable(a, b) == (a.tzinfo = <<>>) = (b.tzinfo = <<>>)

DateTimeLess(a, b) == KeyLess(SortKey(a), SortKey(b))

\* lines 366-369: the two comparisons against the running earliest and
\* latest; e is the entry with the count already raised.  A TypeError
\* leaves the function through the except clause with what was written
\* before it.
WithEarliest(e, d) ==
    IF DateTimeLess(d, e.earliest) THEN [e EXCEPT !.earliest = d] ELSE e

WithLatest(e, d) ==
    IF ~Comparable(d, e.latest) THEN e
    ELSE IF DateTimeLess(e.latest, d) THEN [e EXCEPT !.latest = d] ELSE e

Compared(e, d) ==
    IF ~Comparable(d, e.earliest) THEN e ELSE WithLatest(WithEarliest(e, d), d)

\* lines 359-364: the entry is created on the student's first parsed date,
\* then counted
Counted(student_dates, who, d) ==
    LET e == IF who \in DOMAIN student_dates THEN student_dates[who]
             ELSE [earliest |-> d, latest |-> d, count |-> 0]
    IN  [e EXCEPT !.count = @ + 1]

\* student_dates after the loop body has run for one submission whose date
\* parsed as d (d.exc = "none") or did not
RangeStep(student_dates, who, date_str, d) ==
    IF date_str = <<>> \/ d.exc # "none" THEN student_dates
    ELSE [w \in DOMAIN student_dates \cup {who} |->
             IF w = who THEN Compared(Counted(student_dates, who, d), d)
             ELSE student_dates[w]]

RangeBody(student_dates, who, date_str) ==
    RangeStep(student_dates, who, date_str, ParseSubmissionDate(date_str))

RECURSIVE RangeLoop(_, _, _)
RangeLoop(subs, i, student_dates) ==
    IF i > Len(subs) THEN student_dates
    ELSE RangeLoop(subs, i + 1,
                   RangeBody(student_dates, Get(subs[i], "student", "unknown"),
                             Get(subs[i], "submission_date", <<>>)))

\* the empty dict
EmptyDict == [w \in {} |-> <<>>]

get_student_date_ranges(subs) == RangeLoop(subs, 1, EmptyDict)

(***************************************************************************)
(* fetch_submissions.  A user name is a sequence of characters, a project  *)
(* path the sequence of its "/"-separated segments.                        *)
(***************************************************************************)
Uppercase == <<"A", "B", "L", "O">>

Lowercase == <<"a", "b", "l", "o">>

LowerChar(c) ==
    IF \E i \in DOMAIN Uppercase : Uppercase[i] = c
    THEN Lowercase[CHOOSE i \in DOMAIN Uppercase : Uppercase[i] = c]
    ELSE c

\* str.lower()
Lower(name) == [i \in 1..Len(name) |-> LowerChar(name[i])]

Unknown == <<"u", "n", "k", "n", "o", "w", "n">>

\* the master project the run was started for: its path and the project
\* record get_project_by_path returned for it
master_project == <<(<<"c", "p">>), (<<"w", "e", "b">>)>>

master_project_data == [id |-> 1, path_with_namespace |-> master_project]

\* master_project.split('/')[-1]
repo_name == master_project[Len(master_project)]

\* the owner attributed to a fork: owner.username, else namespace.name,
\* else creator.username, else the first path segment, else 'unknown'
ForkOwner(fork) ==
    LET fork_owner == Get(Get(fork, "owner", <<>>), "username", Unknown)
    IN  IF fork_owner # Unknown THEN fork_owner
        ELSE IF "namespace" \in DOMAIN fork /\ "name" \in DOMAIN fork.namespace
             THEN fork.namespace.name
        ELSE IF "creator" \in DOMAIN fork /\ "username" \in DOMAIN fork.creator
             THEN fork.creator.username
        ELSE IF "path_with_namespace" \in DOMAIN fork
                /\ Len(fork.path_with_namespace) > 1
             THEN fork.path_with_namespace[1]
        ELSE fork_owner

ForkPath(fork) == Get(fork, "path_with_namespace", <<Unknown>>)

\* variant: a fork without an id is given one
ForkId_Assigned(fork) == Get(fork, "id", 4)

\* fork.get('id'); 0 stands for None
ForkId(fork) == Get(fork, "id", 0)

\* the student filter on the fork list
FilterForks(fs, who) ==
    LET Mine(f) == Lower(Get(Get(f, "owner", <<>>), "username", <<>>)) = Lower(who)
    IN  SelectSeq(fs, Mine)

\* variant: the author compared as written
IsStudentNote_ExactCase(note, fork_owner) ==
    /\ ~Get(note, "system", FALSE)
    /\ Get(Get(note, "author", <<>>), "username", <<>>) = fork_owner

\* the notes of one issue that count as the student's comments
IsStudentNote(note, fork_owner) ==
    /\ ~Get(note, "system", FALSE)
    /\ Lower(Get(Get(note, "author", <<>>), "username", <<>>)) = Lower(fork_owner)

\* the COMMENT submission built for a note, after validation
CommentSubmission(fork, issue, note, repository, repo_type, is_codepath) ==
    validate_submission(
        [student |-> ForkOwner(fork),
         repository |-> repository,
         repo_name |-> repo_name,
         owner_name |-> ForkOwner(fork),
         source_repository |-> ForkPath(fork),
         submission_type |-> "COMMENT",
         submission_date |-> note.created_at,
         issue_number |-> issue.iid,
         issue_title |-> issue.title,
         issue_display |-> <<"#", issue.iid>>,
         comment_id |-> note.id,
         comment_text |-> Get(note, "body", <<>>),
         repo_type |-> repo_type,
         is_codepath_submission |-> is_codepath,
         addressed_issues |-> <<>>])

\* the PULL_REQUEST submission built for a merge request, after validation
PullRequestSubmission(fork, mr, repository, repo_type, is_codepath) ==
    validate_submission(
        [student |-> ForkOwner(fork),
         repository |-> repository,
         repo_name |-> repo_name,
         owner_name |-> ForkOwner(fork),
         source_repository |-> ForkPath(fork),
         submission_type |-> "PULL_REQUEST",
         submission_date |-> mr.created_at,
         pr_number |-> mr.iid,
         pr_title |-> mr.title,
         pr_description |-> Get(mr, "description", <<>>),
         repo_type |-> repo_type,
         is_codepath_submission |-> is_codepath,
         addressed_issues |-> <<>>])

\* the loop over the notes fetched for one issue
StudentNotes(fork, notes) ==
    LET Mine(note) == IsStudentNote(note, ForkOwner(fork))
    IN  SelectSeq(notes, Mine)

CommentSubmissions(fork, issue, mine, repository, repo_type, is_codepath) ==
    [i \in 1..Len(mine) |->
        CommentSubmission(fork, issue, mine[i], repository, repo_type, is_codepath)]

NoteSubmissions(fork, issue, notes, repository, repo_type, is_codepath) ==
    CommentSubmissions(fork, issue, StudentNotes(fork, notes),
                       repository, repo_type, is_codepath)

\* lines 549-577: the student's comments on an issue of the fork
ForkCommentSubmissions(fork, issue, notes) ==
    NoteSubmissions(fork, issue, notes, ForkPath(fork), "student_fork", FALSE)

\* variant: the master comments filed under the fork's path
MasterCommentSubmissions_InFork(fork, issue, notes) ==
    NoteSubmissions(fork, issue, notes, ForkPath(fork), "codepath_repo", TRUE)

\* variant: the master comments not flagged as CodePath submissions
MasterCommentSubmissions_Unflagged(fork, issue, notes) ==
    NoteSubmissions(fork, issue, notes, master_project, "codepath_repo", FALSE)

\* lines 601-628: the student's comments on an issue of the master project
MasterCommentSubmissions(fork, issue, notes) ==
    NoteSubmissions(fork, issue, notes, master_project, "codepath_repo", TRUE)

\* lines 642-651: the partition of the fork's merge requests
IsSelfMerge(mr) ==
    Get(mr, "source_project_id", 0) = Get(mr, "target_project_id", 0)

\* variant: every merge request that leaves the fork counts as to-master
IsToMaster_AnyTarget(mr) == ~IsSelfMerge(mr)

IsToMaster(mr) ==
    /\ ~IsSelfMerge(mr)
    /\ Get(mr, "target_project_id", 0) = master_project_data.id

\* lines 657-699: self-merges first, then merge requests to the master project
SelfMergeSubmissions(fork, self_mrs) ==
    [i \in 1..Len(self_mrs) |->
        PullRequestSubmission(fork, self_mrs[i], ForkPath(fork), "student_fork", FALSE)]

ToMasterSubmissions(fork, master_mrs) ==
    [i \in 1..Len(master_mrs) |->
        PullRequestSubmission(fork, master_mrs[i], master_project, "codepath_repo", TRUE)]

ForkMergeRequestSubmissions(fork, mrs) ==
    SelfMergeSubmissions(fork, SelectSeq(mrs, IsSelfMerge))
        \o ToMasterSubmissions(fork, SelectSeq(mrs, IsToMaster))

\* variant: a merge request already emitted for the master project is left out
MasterRepoMergeRequestSubmissions_Deduplicated(fork, mrs) ==
    LET Known(mr) ==
            \E i \in DOMAIN all_submissions :
                /\ all_submissions[i].submission_type = "PULL_REQUEST"
                /\ all_submissions[i].repository = master_project
                /\ all_submissions[i].pr_number = mr.iid
        Fresh(mr) == ~Known(mr)
        fresh == SelectSeq(mrs, Fresh)
    IN  [i \in 1..Len(fresh) |->
            PullRequestSubmission(fork, fresh[i], master_project, "codepath_repo", TRUE)]

\* lines 702-727: merge requests listed by the master project for this fork
MasterRepoMergeRequestSubmissions(fork, mrs) ==
    [i \in 1..Len(mrs) |->
        PullRequestSubmission(fork, mrs[i], master_project, "codepath_repo", TRUE)]

(***************************************************************************)
(* Inputs                                                                  *)
(***************************************************************************)
MaxFrags == 2        \* a text is made of at most this many fragments
MaxFilterLen == 2    \* length of the list handed to the date filter
MaxRangeLen == 3     \* length of the list handed to get_student_date_ranges
MaxPages == 3        \* pages an endpoint answers with

\* the pieces texts are made of: whole and broken media links and issue
\* references, and plain characters
Fragments ==
    { <<"a">>, <<" ">>, <<"\n">>,
      <<"!", "[", "a", "]", "(", "a", ".txt", ")">>,
      <<"!", "[", "]", "(">>, <<")">>,
      <<"http://", "a", ".png">>, <<"http://">>, <<".png">>,
      <<"/uploads/", "a", ".mp4">>,
      <<"#", "1">>, <<"#">>, <<"2">> }

RECURSIVE Texts(_)
Texts(n) ==
    IF n = 0 THEN {<<>>}
    ELSE Texts(n - 1) \cup {t \o f : t \in Texts(n - 1), f \in Fragments}

TextSet == Texts(MaxFrags)

\* submissions as extraction builds them, before validation
CommentInputs ==
    {[submission_type |-> "COMMENT", comment_text |-> t, issue_number |-> 3,
      addressed_issues |-> <<>>] : t \in TextSet}
    \cup {[submission_type |-> "COMMENT", comment_text |-> t,
           addressed_issues |-> <<>>] : t \in TextSet}

PullRequestInputs ==
    {[submission_type |-> "PULL_REQUEST", pr_description |-> t, pr_number |-> 5,
      addressed_issues |-> a] : t \in TextSet, a \in {<<>>, <<7>>}}

DigitChar(n) ==
    CASE n = 0 -> "0" [] n = 1 -> "1" [] n = 2 -> "2" [] n = 3 -> "3" [] n = 4 -> "4"
      [] n = 5 -> "5" [] n = 6 -> "6" [] n = 7 -> "7" [] n = 8 -> "8" [] n = 9 -> "9"

Pad2(n) == <<DigitChar(n \div 10), DigitChar(n % 10)>>

Pad4(n) == Pad2(n \div 100) \o Pad2(n % 100)

\* "YYYY-MM-DD"
PlainDate(ymd) == Pad4(ymd[1]) \o <<"-">> \o Pad2(ymd[2]) \o <<"-">> \o Pad2(ymd[3])

\* "YYYY-MM-DDTHH:MM:00" followed by the zone
IsoDate(ymd, hm, zone) ==
    PlainDate(ymd) \o <<"T">> \o Pad2(hm[1]) \o <<":">> \o Pad2(hm[2])
        \o <<":", "0", "0">> \o zone

Days == {<<2023, 11, 30>>, <<2023, 12, 1>>, <<2023, 12, 31>>, <<2024, 1, 1>>}

PlainStrings == {PlainDate(d) : d \in Days}

IsoStrings ==
    { IsoDate(<<2023, 12, 1>>, <<23, 59>>, <<"Z">>),
      IsoDate(<<2023, 12, 31>>, <<23, 59>>, <<"Z">>),
      IsoDate(<<2023, 11, 30>>, <<23, 59>>, <<"-", "0", "8", ":", "0", "0">>),
      IsoDate(<<2024, 1, 1>>, <<0, 0>>, <<"+", "0", "5", ":", "3", "0">>),
      IsoDate(<<2023, 12, 1>>, <<0, 0>>, <<>>) }

\* strings that are no date: "TBD", "2023/12/01", and the 31st of November
MalformedStrings ==
    { <<"T", "B", "D">>,
      <<"2", "0", "2", "3", "/", "1", "2", "/", "0", "1">>,
      PlainDate(<<2023, 11, 31>>) }

WellFormedStrings == PlainStrings \cup IsoStrings

\* the submissions handed to the date filter: with a date of either shape,
\* with a malformed one, with an empty one, and without the key
FilterInputs ==
    {[student |-> "al", submission_date |-> d] :
        d \in WellFormedStrings \cup MalformedStrings \cup {<<>>}}
    \cup {[student |-> "al"]}

\* the submissions handed to get_student_date_ranges: two students and a
\* record without one, dates of both shapes with and without a zone, a
\* malformed date, an empty one
RangeDates ==
    { PlainDate(<<2023, 11, 30>>), PlainDate(<<2023, 12, 1>>),
      IsoDate(<<2023, 12, 1>>, <<23, 59>>, <<"Z">>),
      IsoDate(<<2023, 11, 30>>, <<23, 59>>, <<"-", "0", "8", ":", "0", "0">>),
      IsoDate(<<2023, 12, 1>>, <<0, 0>>, <<>>),
      <<"T", "B", "D">>, <<>> }

RangeInputs ==
    {[student |-> w, submission_date |-> d] : w \in {"al", "bo"}, d \in RangeDates}
    \cup {[submission_date |-> PlainDate(<<2023, 12, 1>>)]}

RECURSIVE ListsOf(_, _)
ListsOf(S, n) ==
    IF n = 0 THEN {<<>>}
    ELSE ListsOf(S, n - 1) \cup {Append(l, x) : l \in ListsOf(S, n - 1), x \in S}

StartDates ==
    {<<>>, PlainDate(<<2023, 12, 1>>), <<"1", "2", "/", "0", "1">>}

EndDates ==
    {<<>>, PlainDate(<<2023, 12, 31>>), PlainDate(<<2023, 12, 1>>),
     <<"1", "2", "/", "3", "1">>}

(***************************************************************************)
(* validate_submission applied to one submission                           *)
(***************************************************************************)
ValidateIdle == sub = <<>>

FilterIdle ==
    /\ submissions = <<>> /\ filtered = <<>>

ExtractIdle ==
    /\ student = <<>> /\ forks = <<>> /\ idx = 0
    /\ issues = <<>> /\ issue_idx = 0
    /\ fetched = <<>> /\ all_submissions = <<>>
    /\ response = <<>>

CallIdle == arg = <<>> /\ ret = <<>>

GetIdle == get_page = 0 /\ get_results = <<>> /\ sent = <<>>

BatchIdle == file = <<>> /\ attempted = <<>>

InitValidate ==
    /\ pc = "validate"
    /\ GetIdle /\ BatchIdle
    /\ sub \in CommentInputs \cup PullRequestInputs
    /\ start_date = <<>> /\ end_date = <<>> /\ printed = <<>>
    /\ FilterIdle /\ ExtractIdle /\ CallIdle

Validate ==
    /\ pc = "validate"
    /\ sub' = validate_submission(sub)
    /\ pc' = "validated"
    /\ UNCHANGED <<file, attempted, get_page, get_results, sent, arg, ret,
                   response, submissions, start_date, end_date, filtered,
                   printed, student, forks, idx, issues, issue_idx, fetched,
                   all_submissions>>

NextValidate == Validate

SpecValidate == InitValidate /\ [][NextValidate]_vars

(***************************************************************************)
(* filter_submissions_by_date applied to one list                          *)
(***************************************************************************)
InitFilter ==
    /\ pc = "filter"
    /\ GetIdle /\ BatchIdle
    /\ submissions \in ListsOf(FilterInputs, MaxFilterLen)
    /\ start_date \in StartDates
    /\ end_date \in EndDates
    /\ filtered = <<>> /\ printed = <<>>
    /\ ValidateIdle /\ ExtractIdle /\ CallIdle

Filter ==
    /\ pc = "filter"
    /\ LET r == filter_submissions_by_date(submissions, start_date, end_date)
       IN  /\ filtered' = r.ret
           /\ printed' = printed \o r.out
           /\ pc' = IF r.exc = "none" THEN "returned" ELSE "raised"
    /\ submissions' = FilterArgumentAfter(submissions, start_date, end_date)
    /\ UNCHANGED <<file, attempted, get_page, get_results, sent, arg, ret,
                   response, sub, start_date, end_date, student, forks, idx,
                   issues, issue_idx, fetched, all_submissions>>

NextFilter == Filter

SpecFilter == InitFilter /\ [][NextFilter]_vars

(***************************************************************************)
(* has_media_attachments and has_issue_references applied to one text.     *)
(* The empty text stands for every falsy argument, None included.          *)
(***************************************************************************)
\* markdown links whose target is itself a media URL or an upload path
LinkedMedia ==
    { <<"!", "[", "a", "]", "(", "http://", "a", ".png", ")">>,
      <<"!", "[", "a", "]", "(", "/uploads/", "a", ".mp4", ")">> }

DetectTexts ==
    TextSet \cup {t \o f : t \in Texts(MaxFrags - 1), f \in LinkedMedia}
            \cup {f \o t : t \in Texts(MaxFrags - 1), f \in LinkedMedia}

InitDetect ==
    /\ pc = "detect"
    /\ GetIdle /\ BatchIdle
    /\ arg \in DetectTexts
    /\ ret = <<>>
    /\ start_date = <<>> /\ end_date = <<>> /\ printed = <<>>
    /\ ValidateIdle /\ FilterIdle /\ ExtractIdle

DetectMedia ==
    /\ pc = "detect"
    /\ ret' = has_media_attachments(arg)
    /\ pc' = "media"
    /\ UNCHANGED <<file, attempted, get_page, get_results, sent, arg, response,
                   sub, submissions, start_date, end_date, filtered, printed,
                   student, forks, idx, issues, issue_idx, fetched,
                   all_submissions>>

DetectReferences ==
    /\ pc = "detect"
    /\ ret' = has_issue_references(arg)
    /\ pc' = "references"
    /\ UNCHANGED <<file, attempted, get_page, get_results, sent, arg, response,
                   sub, submissions, start_date, end_date, filtered, printed,
                   student, forks, idx, issues, issue_idx, fetched,
                   all_submissions>>

NextDetect == DetectMedia \/ DetectReferences

SpecDetect == InitDetect /\ [][NextDetect]_vars

(***************************************************************************)
(* _get applied to the answers of one endpoint                             *)
(***************************************************************************)
ErrorStatuses == {401, 403, 404, 500, 0}

PageSet ==
    {[status |-> 200, results |-> l, next |-> n] :
        l \in {<<>>, <<"a">>, <<"b", "c">>}, n \in BOOLEAN}
    \cup {[status |-> e] : e \in ErrorStatuses}

InitGet ==
    /\ pc = "get"
    /\ GetIdle /\ BatchIdle
    /\ arg \in ListsOf(PageSet, MaxPages)
    /\ ret = <<>>
    /\ start_date = <<>> /\ end_date = <<>> /\ printed = <<>>
    /\ ValidateIdle /\ FilterIdle /\ ExtractIdle

Get_ ==
    /\ pc = "get"
    /\ LET r == _get(arg)
       IN  /\ ret' = r.ret
           /\ printed' = printed \o r.out
           /\ pc' = IF r.exc = "none" THEN "got" ELSE "raised"
    /\ UNCHANGED <<file, attempted, get_page, get_results, sent, arg, response,
                   sub, submissions, start_date, end_date, filtered, student,
                   forks, idx, issues, issue_idx, fetched, all_submissions>>

NextGet == Get_

SpecGet == InitGet /\ [][NextGet]_vars

(***************************************************************************)
(* get_student_date_ranges applied to one list                             *)
(***************************************************************************)
InitRanges ==
    /\ pc = "ranges"
    /\ GetIdle /\ BatchIdle
    /\ arg \in ListsOf(RangeInputs, MaxRangeLen)
    /\ ret = <<>>
    /\ start_date = <<>> /\ end_date = <<>> /\ printed = <<>>
    /\ ValidateIdle /\ FilterIdle /\ ExtractIdle

Ranges ==
    /\ pc = "ranges"
    /\ ret' = get_student_date_ranges(arg)
    /\ pc' = "ranged"
    /\ UNCHANGED <<file, attempted, get_page, get_results, sent, arg, response,
                   sub, submissions, start_date, end_date, filtered, printed,
                   student, forks, idx, issues, issue_idx, fetched,
                   all_submissions>>

NextRanges == Ranges

SpecRanges == InitRanges /\ [][NextRanges]_vars

(***************************************************************************)
(* Properties of validate_submission                                       *)
(***************************************************************************)
CountIn(seq, S) == Cardinality({i \in DOMAIN seq : seq[i] \in S})

IssueReferenceReasons(seq) ==
    {seq[i] : i \in {j \in DOMAIN seq :
                        seq[j].text = "References issue(s) {issue_nums} in description"}}

\* C1: a validated PULL_REQUEST is valid exactly when its description holds
\* a media match and an issue reference, and each of the two checks leaves
\* exactly one reason: "Has attachment" or "Missing attachment", and the
\* issue-reference reason or "No issue references found".
C1_PullRequestValidity ==
    (pc = "validated" /\ sub.submission_type = "PULL_REQUEST") =>
        LET media == has_media_attachments(sub.pr_description).has_media
            refs == has_issue_references(sub.pr_description).has_refs
            reasons == sub.validity_reasons
        IN  /\ sub.is_valid = (media /\ refs)
            /\ CountIn(reasons, {HasAttachment, MissingAttachment}) = 1
            /\ CountIn(reasons, {HasAttachment}) = (IF media THEN 1 ELSE 0)
            /\ CountIn(reasons, IssueReferenceReasons(reasons) \cup {NoIssueReferences}) = 1
            /\ CountIn(reasons, {NoIssueReferences}) = (IF refs THEN 0 ELSE 1)

\* a pull request with an attachment and no issue reference was validated:
\* invalid, with both checks reported
C1_Witness ==
    /\ pc = "validated"
    /\ sub.submission_type = "PULL_REQUEST"
    /\ sub.pr_description = <<"/uploads/", "a", ".mp4", "#">>
    /\ ~sub.is_valid
    /\ sub.validity_reasons = <<HasAttachment, NoIssueReferences>>

\* C2: a validated COMMENT is valid exactly when its comment text holds
\* media; the first reason is "Has attachment" or "Missing attachment"
\* accordingly; issue references and a linked issue number change nothing.
C2_CommentValidity ==
    (pc = "validated" /\ sub.submission_type = "COMMENT") =>
        LET media == has_media_attachments(sub.comment_text).has_media
        IN  /\ sub.is_valid = media
            /\ sub.validity_reasons[1] =
                   (IF media THEN HasAttachment ELSE MissingAttachment)

\* a comment that references an issue and is linked to one, but has no
\* attachment, was validated: invalid
C2_Witness ==
    /\ pc = "validated"
    /\ sub.submission_type = "COMMENT"
    /\ sub.comment_text = <<"#", "1", "a">>
    /\ "issue_number" \in DOMAIN sub
    /\ ~sub.is_valid
    /\ sub.validity_reasons =
           <<MissingAttachment, ReferencesIssues(<<1>>), LinkedToIssue(3)>>

(***************************************************************************)
(* Properties of filter_submissions_by_date                                *)
(***************************************************************************)
\* the calendar date written in the first ten columns of a well-formed
\* date string, as one number
DayNumber(s) ==
    NumOf(SubSeq(s, 1, 4)) * 10000 + NumOf(SubSeq(s, 6, 7)) * 100
        + NumOf(SubSeq(s, 9, 10))

HasParseableDate(x) ==
    "submission_date" \in DOMAIN x /\ x.submission_date \in WellFormedStrings

HasUnparseableDate(x) ==
    "submission_date" \in DOMAIN x /\ x.submission_date \in MalformedStrings

HasNoDate(x) ==
    "submission_date" \notin DOMAIN x \/ x.submission_date = <<>>

BoundGiven == start_date # <<>> \/ end_date # <<>>

BoundsAreDates ==
    /\ start_date \in PlainStrings \cup {<<>>}
    /\ end_date \in PlainStrings \cup {<<>>}

InRange(x) ==
    /\ start_date # <<>> => DayNumber(x.submission_date) >= DayNumber(start_date)
    /\ end_date # <<>> => DayNumber(x.submission_date) <= DayNumber(end_date)

ParseableInRange(x) == HasParseableDate(x) /\ InRange(x)

WarnedFor(x) ==
    \E j \in DOMAIN printed :
        printed[j] = InvalidDateWarning(Get(x, "submission_date", <<>>))

Returned(x) == \E j \in DOMAIN filtered : filtered[j] = x

\* C8: with at least one bound (each a date), the submissions with a
\* parseable date that are kept are exactly those whose calendar date is
\* >= start and <= end, whatever their time of day.
C8_InclusiveDateBounds ==
    (pc = "returned" /\ BoundGiven /\ BoundsAreDates) =>
        SelectSeq(filtered, HasParseableDate) = SelectSeq(submissions, ParseableInRange)

\* start = end = 2023-12-01: the submission of 23:59 that day is kept, the
\* one of the day before is not
C8_Witness ==
    /\ pc = "returned"
    /\ start_date = PlainDate(<<2023, 12, 1>>)
    /\ end_date = PlainDate(<<2023, 12, 1>>)
    /\ submissions =
           <<[student |-> "al", submission_date |-> PlainDate(<<2023, 11, 30>>)],
             [student |-> "al",
              submission_date |-> IsoDate(<<2023, 12, 1>>, <<23, 59>>, <<"Z">>)]>>
    /\ filtered = <<submissions[2]>>

\* C9: without bounds the list comes back as it went in.
C9_NoBoundsIdentity ==
    (pc = "returned" /\ ~BoundGiven) => filtered = submissions

\* a list with a malformed date and a missing date went through unchanged
C9_Witness ==
    /\ pc = "returned"
    /\ ~BoundGiven
    /\ submissions = <<[student |-> "al", submission_date |-> <<"T", "B", "D">>],
                       [student |-> "al"]>>
    /\ filtered = submissions

RECURSIVE IsSubsequence(_, _)
IsSubsequence(a, b) ==
    IF a = <<>> THEN TRUE
    ELSE IF b = <<>> THEN FALSE
    ELSE IF Head(a) = Head(b) THEN IsSubsequence(Tail(a), Tail(b))
    ELSE IsSubsequence(a, Tail(b))

\* C11: the call leaves the list it was given as it was, elements, order
\* and records, and what it returns is that list with some elements left
\* out, the order kept.
C11_FilterLeavesInputAlone ==
    [][pc = "filter" =>
          /\ submissions' = submissions
          /\ pc' = "returned"
          /\ IsSubsequence(filtered', submissions)]_vars

\* a list of two was filtered down to its second element and still holds
\* both
C11_Witness ==
    /\ pc = "returned"
    /\ BoundGiven
    /\ Len(submissions) = 2
    /\ HasUnparseableDate(submissions[1])
    /\ filtered = <<submissions[2]>>

\* C18: the list has_media_attachments returns is every markdown image
\* target, then every direct media URL, then every /uploads/ path, a URL
\* matched by two patterns appearing once for each; has_media is true exactly
\* when the list is non-empty; an empty or absent text gives (False, []).
C18_MediaUrlsInRuleOrder ==
    pc = "media" =>
        LET markdown == MarkdownFindAll(arg, 1)
            direct == ExtFindAll(arg, 1, "http://", UrlStop)
            uploads == ExtFindAll(arg, 1, "/uploads/", UploadStop)
        IN  /\ Len(ret.urls) = Len(markdown) + Len(direct) + Len(uploads)
            /\ SubSeq(ret.urls, 1, Len(markdown)) = markdown
            /\ SubSeq(ret.urls, Len(markdown) + 1, Len(markdown) + Len(direct)) = direct
            /\ SubSeq(ret.urls, Len(markdown) + Len(direct) + 1, Len(ret.urls)) = uploads
            /\ ret.has_media = (ret.urls # <<>>)
            /\ arg = <<>> => ret = [has_media |-> FALSE, urls |-> <<>>]

\* a markdown link to an upload, found by the markdown pattern and by the
\* upload pattern
C18_Witness ==
    /\ pc = "media"
    /\ MarkdownFindAll(arg, 1) = <<(<<"/uploads/", "a", ".mp4">>)>>
    /\ ExtFindAll(arg, 1, "/uploads/", UploadStop) = <<(<<"/uploads/", "a", ".mp4">>)>>
    /\ Len(ret.urls) = 2 /\ ret.urls[1] = ret.urls[2] /\ ret.has_media

\* the positions of a text where an issue reference starts
ReferenceStarts(t) ==
    {i \in 1..(Len(t) - 1) : t[i] = "#" /\ t[i + 1] \in Digit}

\* the number written by the digits that follow position i
NumberAfter(t, i) ==
    LET e == CHOOSE e \in (i + 1)..Len(t) :
                 /\ \A j \in (i + 1)..e : t[j] \in Digit
                 /\ e = Len(t) \/ t[e + 1] \notin Digit
    IN  IntOf(SubSeq(t, i + 1, e))

\* C19: has_issue_references returns the number of every '#<digits>' of the
\* text, as an integer, in the order of the text, a number referenced twice
\* appearing twice; has_refs is true exactly when the list is non-empty; an
\* empty or absent text gives (False, []).
C19_ReferencesInTextOrder ==
    pc = "references" =>
        /\ Len(ret.nums) = Cardinality(ReferenceStarts(arg))
        /\ \A i \in ReferenceStarts(arg) :
               ret.nums[Cardinality({j \in ReferenceStarts(arg) : j <= i})]
                   = NumberAfter(arg, i)
        /\ ret.has_refs = (ret.nums # <<>>)
        /\ arg = <<>> => ret = [has_refs |-> FALSE, nums |-> <<>>]

C19_Witness ==
    /\ pc = "references"
    /\ ret = [has_refs |-> TRUE, nums |-> <<1, 1>>]

\* page k is requested: every page before it was answered with results and
\* named a further page
Requested(pages, k) ==
    \A j \in 1..(k - 1) :
        pages[j].status = 200 /\ pages[j].results # <<>> /\ pages[j].next

FailsAt(pages, k) ==
    k \in 1..Len(pages) /\ Requested(pages, k) /\ pages[k].status # 200

RECURSIVE PagesUpTo(_, _)
PagesUpTo(pages, n) ==
    IF n = 0 THEN <<>> ELSE PagesUpTo(pages, n - 1) \o pages[n].results

\* C16: _get never propagates a transport or HTTP error: when the request
\* for page k fails, the caller receives exactly the concatenation of the
\* pages 1..k-1.
C16_FailedPageTruncates ==
    /\ pc # "raised"
    /\ pc = "got" =>
           \A k \in 1..Len(arg) : FailsAt(arg, k) => ret = PagesUpTo(arg, k - 1)

C16_Witness ==
    /\ pc = "got"
    /\ FailsAt(arg, 3)
    /\ ret = arg[1].results \o arg[2].results
    /\ printed # <<>>

\* the parsed dates of the submissions of one student, in list order
RECURSIVE ParsedDatesOf(_, _)
ParsedDatesOf(subs, who) ==
    IF subs = <<>> THEN <<>>
    ELSE LET x == Head(subs)
             rest == ParsedDatesOf(Tail(subs), who)
         IN  IF Get(x, "student", "unknown") = who /\ HasParseableDate(x)
             THEN <<ParseSubmissionDate(x.submission_date)>> \o rest
             ELSE rest

StudentsOf(subs) == {Get(subs[i], "student", "unknown") : i \in 1..Len(subs)}

IsEarliestOf(d, ds) ==
    /\ \E i \in 1..Len(ds) : ds[i] = d
    /\ \A i \in 1..Len(ds) : ~DateTimeLess(ds[i], d)

IsLatestOf(d, ds) ==
    /\ \E i \in 1..Len(ds) : ds[i] = d
    /\ \A i \in 1..Len(ds) : ~DateTimeLess(d, ds[i])

RangeEntryRight(e, ds) ==
    /\ e.count = Len(ds)
    /\ IsEarliestOf(e.earliest, ds)
    /\ IsLatestOf(e.latest, ds)

\* C12: get_student_date_ranges returns, for each student with at least one
\* submission whose date parses, the number of such submissions and the
\* earliest and latest of their parsed dates, whichever of the two accepted
\* shapes the dates have; students with no parseable date have no entry.
C12_RangesAreCountMinMax ==
    pc = "ranged" =>
        /\ DOMAIN ret = {w \in StudentsOf(arg) : ParsedDatesOf(arg, w) # <<>>}
        /\ \A w \in DOMAIN ret : RangeEntryRight(ret[w], ParsedDatesOf(arg, w))

(***************************************************************************)
(* fetch_submissions: the walk over the forks.  What the server returns    *)
(* for each request is chosen when the request is made.                    *)
(***************************************************************************)
MaxForks == 1      \* forks returned for the master project
MaxIssues == 1     \* issues returned for a project
MaxNotes == 2      \* notes returned for an issue
MaxMRs == 2        \* merge requests returned by a listing
MaxEmitted == 2    \* submissions emitted in one run

Al == <<"a", "l">>
Bo == <<"B", "o">>
Web == <<"w", "e", "b">>

\* forks as the API lists them: owned by al; one whose record carries no
\* id; one in a group, listed with a namespace named Bo and no owner
ForkSet ==
    { [id |-> 2, owner |-> [username |-> Al], path_with_namespace |-> <<Al, Web>>],
      [owner |-> [username |-> Al], path_with_namespace |-> <<Al, <<"o", "l", "d">>>>],
      [id |-> 3, namespace |-> [name |-> Bo],
       path_with_namespace |-> <<(<<"g">>), Web>>] }

StudentArgs == {<<>>, <<"A", "L">>}

MediaText == <<"/uploads/", "a", ".png">>
MediaAndIssueText == <<"/uploads/", "a", ".png", " ", "#", "1">>

\* notes as the API lists them: by al with an attachment; by "Al" without a
\* system flag; a system note by al; by "bo"
NoteSet ==
    { [id |-> 11, system |-> FALSE, author |-> [username |-> Al],
       body |-> MediaText,
       created_at |-> IsoDate(<<2023, 12, 1>>, <<23, 59>>, <<"Z">>)],
      [id |-> 12, author |-> [username |-> <<"A", "l">>],
       body |-> <<"#", "1">>,
       created_at |-> IsoDate(<<2023, 11, 30>>, <<23, 59>>, <<"Z">>)],
      [id |-> 13, system |-> TRUE, author |-> [username |-> Al],
       body |-> <<"a">>,
       created_at |-> IsoDate(<<2023, 12, 1>>, <<23, 59>>, <<"Z">>)],
      [id |-> 14, system |-> FALSE, author |-> [username |-> <<"b", "o">>],
       body |-> MediaText,
       created_at |-> IsoDate(<<2023, 12, 1>>, <<23, 59>>, <<"Z">>)] }

IssueSet == {[iid |-> 1, title |-> "Getting started"]}

\* an issue whose record carries no iid
MalformedIssue == [title |-> "Untitled"]

\* merge requests as the API lists them, between the master project (1),
\* al's fork (2) and Bo's fork (3): inside al's fork, inside the master
\* project, from al's fork to the master project, from al's fork to Bo's
MergeRequest(src, tgt) ==
    [iid |-> 10 * src + tgt, title |-> "Add feature",
     source_project_id |-> src, target_project_id |-> tgt,
     created_at |-> IsoDate(<<2023, 12, 31>>, <<23, 59>>, <<"Z">>)]

MergeRequestSet ==
    { [description |-> MediaAndIssueText] @@ MergeRequest(2, 2),
      [description |-> MediaText] @@ MergeRequest(1, 1),
      [description |-> MediaAndIssueText] @@ MergeRequest(2, 1),
      MergeRequest(2, 3) }

\* a fork without an id listed ahead of a fork with one
SkippedThenListed ==
    {<<f, g>> : f \in {h \in ForkSet : "id" \notin DOMAIN h},
                g \in {h \in ForkSet : ForkId(h) = 2}}

ForkLists == ListsOf(ForkSet, MaxForks) \cup SkippedThenListed
IssueLists == ListsOf(IssueSet, MaxIssues) \cup {<<MalformedIssue>>}
NoteLists == ListsOf(NoteSet, MaxNotes)
MergeRequestLists == ListsOf(MergeRequestSet, MaxMRs)

\* what the server answers a listing request with: the whole list on one
\* page; an error for the first page; a first page naming a second one whose
\* request fails
Answers(lists, first_pages) ==
    {<<[status |-> 200, results |-> l, next |-> FALSE]>> : l \in lists}
    \cup {<<[status |-> 404]>>}
    \cup {<<[status |-> 200, results |-> l, next |-> TRUE], [status |-> 0]>> :
             l \in first_pages}

ForkAnswers == Answers(ForkLists, {<<f>> : f \in {g \in ForkSet : ForkId(g) = 2}})

IssueAnswers ==
    Answers(IssueLists, {<<i>> : i \in IssueSet})

NoteAnswers == Answers(NoteLists, {<<n>> : n \in {m \in NoteSet : m.id = 11}})

MergeRequestAnswers ==
    Answers(MergeRequestLists, {<<m>> : m \in {x \in MergeRequestSet : x.iid = 21}})

\* what the server answers the request for the master project with
ProjectAnswers ==
    { <<[status |-> 200, project |-> master_project_data]>>,
      <<[status |-> 404]>>, <<[status |-> 0]>> }

\* lines 115-121 and 544-547: a request for notes that raises leaves the
\* empty list
NotesOrEmpty(r) == IF r.exc = "none" THEN r.ret ELSE <<>>

get_issue_notes(answer) == NotesOrEmpty(_get(answer))

\* each answer with what the request returns to fetch_submissions for it
ForkRequests == {[answer |-> a, got |-> _get(a)] : a \in ForkAnswers}

IssueRequests == {[answer |-> a, got |-> _get(a)] : a \in IssueAnswers}

NoteRequests == {[answer |-> a, notes |-> get_issue_notes(a)] : a \in NoteAnswers}

MergeRequestRequests == {[answer |-> a, got |-> _get(a)] : a \in MergeRequestAnswers}

\* the run stays within MaxEmitted submissions: n more can be appended
RoomFor(n) == Len(all_submissions) + n <= MaxEmitted

\* main is started with a command line; the lines the requests print for
\* their errors are not kept in printed
InitExtract ==
    /\ pc = "main"
    /\ GetIdle /\ BatchIdle
    /\ arg \in {[master_project |-> master_project], [master_project |-> <<>>]}
    /\ student \in StudentArgs
    /\ start_date \in {<<>>, PlainDate(<<2023, 12, 1>>)}
    /\ end_date = <<>>
    /\ forks = <<>> /\ idx = 0 /\ issues = <<>> /\ issue_idx = 0 /\ fetched = <<>>
    /\ all_submissions = <<>> /\ printed = <<>>
    /\ response = <<>> /\ ret = <<>>
    /\ ValidateIdle /\ FilterIdle

\* lines 1089-1092: without --master-project the usage guide is shown and
\* the process exits
Usage ==
    /\ pc = "main"
    /\ arg.master_project = <<>>
    /\ pc' = "usage_exit"
    /\ UNCHANGED <<file, attempted, get_page, get_results, sent, arg, ret,
                   response, sub, submissions, start_date, end_date, filtered,
                   printed, student, forks, idx, issues, issue_idx, fetched,
                   all_submissions>>

\* lines 450-454: the master project is requested; the process exits when
\* it is not returned
FetchMasterProject ==
    /\ pc = "main"
    /\ arg.master_project # <<>>
    /\ \E answer \in ProjectAnswers :
          /\ response' = answer
          /\ pc' = IF answer[1].status = 200 THEN "start" ELSE "master_not_found"
    /\ UNCHANGED <<file, attempted, get_page, get_results, sent, arg, ret, sub,
                   submissions, start_date, end_date, filtered, printed,
                   student, forks, idx, issues, issue_idx, fetched,
                   all_submissions>>

\* line 461: the forks of the master project
FetchForks ==
    /\ pc = "start"
    /\ \E q \in ForkRequests :
          /\ forks' = q.got.ret
          /\ response' = q.answer
          /\ pc' = IF q.got.exc = "none" THEN "forks" ELSE "raised"
    /\ UNCHANGED <<file, attempted, get_page, get_results, sent, arg, ret, sub,
                   submissions, start_date, end_date, filtered, printed,
                   student, idx, issues, issue_idx, fetched, all_submissions>>

\* lines 463-489: no forks, or none of the student's: return at once
Start ==
    /\ pc = "forks"
    /\ LET mine == IF student # <<>> THEN FilterForks(forks, student) ELSE forks
       IN  /\ forks' = mine
           /\ pc' = IF mine = <<>> THEN "returned" ELSE "fork_loop"
    /\ idx' = 1
    /\ response' = <<>>
    /\ UNCHANGED <<file, attempted, get_page, get_results, sent, arg, ret, sub,
                   submissions, start_date, end_date, filtered, printed,
                   student, issues, issue_idx, fetched, all_submissions>>

\* lines 513-515: a fork without an id is skipped
SkipFork ==
    /\ pc = "fork_loop"
    /\ idx <= Len(forks)
    /\ ForkId(forks[idx]) = 0
    /\ idx' = idx + 1
    /\ UNCHANGED <<file, attempted, get_page, get_results, sent, arg, ret,
                   response, pc, sub, submissions, start_date, end_date,
                   filtered, printed, student, forks, issues, issue_idx,
                   fetched, all_submissions>>

\* line 527: the issues of the fork
FetchForkIssues ==
    /\ pc = "fork_loop"
    /\ idx <= Len(forks)
    /\ ForkId(forks[idx]) # 0
    /\ \E q \in IssueRequests :
          /\ issues' = q.got.ret
          /\ response' = q.answer
          /\ pc' = IF q.got.exc = "none" THEN "fork_issues" ELSE "raised"
    /\ issue_idx' = 1
    /\ UNCHANGED <<file, attempted, get_page, get_results, sent, arg, ret, sub,
                   submissions, start_date, end_date, filtered, printed,
                   student, forks, idx, fetched, all_submissions>>

\* line 537: issue['iid'] of an issue without one is a KeyError
ForkIssueRaises ==
    /\ pc = "fork_issues"
    /\ issue_idx <= Len(issues)
    /\ "iid" \notin DOMAIN issues[issue_idx]
    /\ pc' = "raised"
    /\ UNCHANGED <<file, attempted, get_page, get_results, sent, arg, ret,
                   response, sub, submissions, start_date, end_date, filtered,
                   printed, student, forks, idx, issues, issue_idx, fetched,
                   all_submissions>>

\* lines 538-547: the notes of one issue of the fork
FetchForkNotes ==
    /\ pc = "fork_issues"
    /\ issue_idx <= Len(issues)
    /\ "iid" \in DOMAIN issues[issue_idx]
    /\ \E q \in NoteRequests :
          /\ RoomFor(Len(StudentNotes(forks[idx], q.notes)))
          /\ fetched' = q.notes
          /\ response' = q.answer
    /\ pc' = "fork_notes"
    /\ UNCHANGED <<file, attempted, get_page, get_results, sent, arg, ret, sub,
                   submissions, start_date, end_date, filtered, printed,
                   student, forks, idx, issues, issue_idx, all_submissions>>

\* lines 549-577: the loop over the notes of that issue
ForkIssueNotes ==
    /\ pc = "fork_notes"
    /\ all_submissions' =
          all_submissions \o ForkCommentSubmissions(forks[idx], issues[issue_idx], fetched)
    /\ fetched' = <<>>
    /\ response' = <<>>
    /\ issue_idx' = issue_idx + 1
    /\ pc' = "fork_issues"
    /\ UNCHANGED <<file, attempted, get_page, get_results, sent, arg, ret, sub,
                   submissions, start_date, end_date, filtered, printed,
                   student, forks, idx, issues>>

\* lines 580-583: the issues of the master project
FetchMasterIssues ==
    /\ pc = "fork_issues"
    /\ issue_idx > Len(issues)
    /\ IF master_project_data.id # 0
       THEN \E q \in IssueRequests :
               /\ issues' = q.got.ret
               /\ response' = q.answer
               /\ pc' = IF q.got.exc = "none" THEN "master_issues" ELSE "raised"
       ELSE issues' = <<>> /\ response' = <<>> /\ pc' = "master_issues"
    /\ issue_idx' = 1
    /\ UNCHANGED <<file, attempted, get_page, get_results, sent, arg, ret, sub,
                   submissions, start_date, end_date, filtered, printed,
                   student, forks, idx, fetched, all_submissions>>

\* line 589: issue['iid'] of a master issue without one is a KeyError
MasterIssueRaises ==
    /\ pc = "master_issues"
    /\ issue_idx <= Len(issues)
    /\ "iid" \notin DOMAIN issues[issue_idx]
    /\ pc' = "raised"
    /\ UNCHANGED <<file, attempted, get_page, get_results, sent, arg, ret,
                   response, sub, submissions, start_date, end_date, filtered,
                   printed, student, forks, idx, issues, issue_idx, fetched,
                   all_submissions>>

\* lines 590-599: the notes of one issue of the master project
FetchMasterNotes ==
    /\ pc = "master_issues"
    /\ issue_idx <= Len(issues)
    /\ "iid" \in DOMAIN issues[issue_idx]
    /\ \E q \in NoteRequests :
          /\ RoomFor(Len(StudentNotes(forks[idx], q.notes)))
          /\ fetched' = q.notes
          /\ response' = q.answer
    /\ pc' = "master_notes"
    /\ UNCHANGED <<file, attempted, get_page, get_results, sent, arg, ret, sub,
                   submissions, start_date, end_date, filtered, printed,
                   student, forks, idx, issues, issue_idx, all_submissions>>

\* lines 601-628: the loop over the notes of that master issue
MasterIssueNotes ==
    /\ pc = "master_notes"
    /\ all_submissions' =
          all_submissions
              \o MasterCommentSubmissions(forks[idx], issues[issue_idx], fetched)
    /\ fetched' = <<>>
    /\ response' = <<>>
    /\ issue_idx' = issue_idx + 1
    /\ pc' = "master_issues"
    /\ UNCHANGED <<file, attempted, get_page, get_results, sent, arg, ret, sub,
                   submissions, start_date, end_date, filtered, printed,
                   student, forks, idx, issues>>

\* line 631: the merge requests listed by the fork
FetchMergeRequests ==
    /\ pc = "master_issues"
    /\ issue_idx > Len(issues)
    /\ \E q \in MergeRequestRequests :
          /\ RoomFor(Len(SelectSeq(q.got.ret, IsSelfMerge))
                       + Len(SelectSeq(q.got.ret, IsToMaster)))
          /\ fetched' = q.got.ret
          /\ response' = q.answer
          /\ pc' = IF q.got.exc = "none" THEN "merge_requests" ELSE "raised"
    /\ UNCHANGED <<file, attempted, get_page, get_results, sent, arg, ret, sub,
                   submissions, start_date, end_date, filtered, printed,
                   student, forks, idx, issues, issue_idx, all_submissions>>

\* lines 638-699: the partition of that listing and the two loops over it
ForkMergeRequests ==
    /\ pc = "merge_requests"
    /\ all_submissions' =
          all_submissions \o ForkMergeRequestSubmissions(forks[idx], fetched)
    /\ fetched' = <<>>
    /\ response' = <<>>
    /\ pc' = "master_mrs"
    /\ UNCHANGED <<file, attempted, get_page, get_results, sent, arg, ret, sub,
                   submissions, start_date, end_date, filtered, printed,
                   student, forks, idx, issues, issue_idx>>

\* lines 702-705: the merge requests the master project lists for the fork
FetchMasterRepoMergeRequests ==
    /\ pc = "master_mrs"
    /\ IF master_project_data.id # 0
       THEN \E q \in MergeRequestRequests :
               /\ RoomFor(Len(q.got.ret))
               /\ fetched' = q.got.ret
               /\ response' = q.answer
               /\ pc' = IF q.got.exc = "none" THEN "master_repo_mrs" ELSE "raised"
       ELSE fetched' = <<>> /\ response' = <<>> /\ pc' = "master_repo_mrs"
    /\ UNCHANGED <<file, attempted, get_page, get_results, sent, arg, ret, sub,
                   submissions, start_date, end_date, filtered, printed,
                   student, forks, idx, issues, issue_idx, all_submissions>>

\* lines 707-729: the loop over that listing; then on to the next fork
MasterMergeRequests ==
    /\ pc = "master_repo_mrs"
    /\ all_submissions' =
          all_submissions \o MasterRepoMergeRequestSubmissions(forks[idx], fetched)
    /\ fetched' = <<>>
    /\ response' = <<>>
    /\ idx' = idx + 1
    /\ pc' = "fork_loop"
    /\ UNCHANGED <<file, attempted, get_page, get_results, sent, arg, ret, sub,
                   submissions, start_date, end_date, filtered, printed,
                   student, forks, issues, issue_idx>>

\* lines 731-751: the date filter, then the return
Finish ==
    /\ pc = "fork_loop"
    /\ idx > Len(forks)
    /\ IF start_date # <<>> \/ end_date # <<>>
       THEN LET r == filter_submissions_by_date(all_submissions, start_date, end_date)
            IN  /\ all_submissions' = r.ret
                /\ printed' = printed \o r.out
                /\ pc' = IF r.exc = "none" THEN "returned" ELSE "raised"
       ELSE /\ pc' = "returned"
            /\ UNCHANGED <<file, attempted, get_page, get_results, sent,
                           all_submissions, printed>>
    /\ UNCHANGED <<file, attempted, get_page, get_results, sent, arg, ret,
                   response, sub, submissions, start_date, end_date, filtered,
                   student, forks, idx, issues, issue_idx, fetched>>

\* the status the process ends with: sys.exit(1) on lines 1092 and 454, an
\* uncaught exception, or the end of main
ExitStatus ==
    IF pc \in {"usage_exit", "master_not_found", "raised"} THEN 1 ELSE 0

NextExtract ==
    \/ Usage
    \/ FetchMasterProject
    \/ FetchForks
    \/ Start
    \/ SkipFork
    \/ FetchForkIssues
    \/ ForkIssueRaises
    \/ FetchForkNotes
    \/ ForkIssueNotes
    \/ FetchMasterIssues
    \/ MasterIssueRaises
    \/ FetchMasterNotes
    \/ MasterIssueNotes
    \/ FetchMergeRequests
    \/ ForkMergeRequests
    \/ FetchMasterRepoMergeRequests
    \/ MasterMergeRequests
    \/ Finish

SpecExtract == InitExtract /\ [][NextExtract]_vars

(***************************************************************************)
(* Properties of the extraction loop                                       *)
(***************************************************************************)
\* what the step appended to all_submissions
NewSubmissions ==
    SubSeq(all_submissions', Len(all_submissions) + 1, Len(all_submissions'))

CasePairs == {<<"A", "a">>, <<"B", "b">>, <<"L", "l">>, <<"O", "o">>}

\* equal up to the case of the letters
EqualIgnoringCase(a, b) ==
    /\ Len(a) = Len(b)
    /\ \A i \in DOMAIN a :
          \/ a[i] = b[i]
          \/ <<a[i], b[i]>> \in CasePairs
          \/ <<b[i], a[i]>> \in CasePairs

\* the note is not a system note and its author is the owner of the fork
\* being processed, up to case
OwnerNote(note) ==
    /\ ("system" \in DOMAIN note => ~note.system)
    /\ EqualIgnoringCase(note.author.username, ForkOwner(forks[idx]))

NoteIds(notes) == [k \in DOMAIN notes |-> notes[k].id]

CommentIds(subs) == [k \in DOMAIN subs |-> subs[k].comment_id]

\* C3: every emitted submission has repo_type student_fork or codepath_repo,
\* and is_codepath_submission is true exactly when it is codepath_repo.
C3_CodepathFlagMatchesRepoType ==
    \A i \in DOMAIN all_submissions :
        /\ all_submissions[i].repo_type \in {"student_fork", "codepath_repo"}
        /\ all_submissions[i].is_codepath_submission
               = (all_submissions[i].repo_type = "codepath_repo")

\* a run returned a comment on the fork's own issue and a merge request to
\* the master project: one of each repo_type
C3_Witness ==
    /\ pc = "returned"
    /\ Len(all_submissions) = 2
    /\ all_submissions[1].submission_type = "COMMENT"
    /\ all_submissions[1].repo_type = "student_fork"
    /\ ~all_submissions[1].is_codepath_submission
    /\ all_submissions[2].submission_type = "PULL_REQUEST"
    /\ all_submissions[2].repo_type = "codepath_repo"
    /\ all_submissions[2].is_codepath_submission

\* the merge requests of the listings whose source project is their target
SelfMergeNumbers ==
    {mr.iid : mr \in {m \in MergeRequestSet :
                         m.source_project_id = m.target_project_id}}

\* C4: every submission emitted for a merge request whose source project
\* equals its target project has repo_type student_fork, whichever listing
\* returned the merge request.
C4_SelfMergeIsStudentFork ==
    \A i \in DOMAIN all_submissions :
        (/\ all_submissions[i].submission_type = "PULL_REQUEST"
         /\ all_submissions[i].pr_number \in SelfMergeNumbers)
            => all_submissions[i].repo_type = "student_fork"

Occurrences(seq, iid) == Cardinality({k \in DOMAIN seq : seq[k].iid = iid})

EmittedFor(subs, iid) ==
    {k \in DOMAIN subs :
        subs[k].submission_type = "PULL_REQUEST" /\ subs[k].pr_number = iid}

IsToMasterCase(mr) ==
    /\ mr.source_project_id # mr.target_project_id
    /\ mr.target_project_id = master_project_data.id

IsNeitherCase(mr) ==
    /\ mr.source_project_id # mr.target_project_id
    /\ mr.target_project_id # master_project_data.id

\* C5: when the loop over a fork's own listing has run, each merge request
\* in it to the master project from another project has one PULL_REQUEST
\* submission per occurrence, with repo_type codepath_repo, the master
\* path as repository and the fork path as source_repository; one that is
\* neither a self-merge nor to the master project has none.
C5_ForkListingPartition ==
    [][pc = "merge_requests" =>
          \A k \in DOMAIN fetched :
              /\ IsToMasterCase(fetched[k]) =>
                    /\ Cardinality(EmittedFor(NewSubmissions, fetched[k].iid))
                           = Occurrences(fetched, fetched[k].iid)
                    /\ \A j \in EmittedFor(NewSubmissions, fetched[k].iid) :
                          /\ NewSubmissions[j].repo_type = "codepath_repo"
                          /\ NewSubmissions[j].repository = master_project
                          /\ NewSubmissions[j].source_repository = ForkPath(forks[idx])
              /\ IsNeitherCase(fetched[k]) =>
                    EmittedFor(NewSubmissions, fetched[k].iid) = {}]_vars

\* the loop over the listing of al's fork has run and left one submission,
\* for the merge request from the fork to the master project
C5_Witness ==
    /\ pc = "master_mrs"
    /\ forks[idx].path_with_namespace = <<Al, Web>>
    /\ Len(all_submissions) = 1
    /\ all_submissions[1].submission_type = "PULL_REQUEST"
    /\ all_submissions[1].pr_number = MergeRequest(2, 1).iid
    /\ all_submissions[1].repo_type = "codepath_repo"
    /\ all_submissions[1].repository = master_project
    /\ all_submissions[1].source_repository = <<Al, Web>>

\* C6: the loop over the notes of a fork's issue emits one COMMENT
\* submission with repo_type student_fork for each note that is not a system
\* note and whose author is the fork owner up to case, in order, and
\* nothing else.
C6_ForkCommentsByOwner ==
    [][pc = "fork_notes" =>
          /\ CommentIds(NewSubmissions) = NoteIds(SelectSeq(fetched, OwnerNote))
          /\ \A k \in DOMAIN NewSubmissions :
                /\ NewSubmissions[k].submission_type = "COMMENT"
                /\ NewSubmissions[k].repo_type = "student_fork"]_vars

\* Bo's fork, whose issue carried a note by "bo": one comment, filed under
\* the fork's path
C6_Witness ==
    /\ pc = "fork_issues"
    /\ issue_idx = 2
    /\ ForkOwner(forks[idx]) = Bo
    /\ Len(all_submissions) = 1
    /\ all_submissions[1].submission_type = "COMMENT"
    /\ all_submissions[1].comment_id = 14
    /\ all_submissions[1].repo_type = "student_fork"
    /\ all_submissions[1].repository = <<(<<"g">>), Web>>

\* C7: the loop over the notes of a master issue emits one COMMENT
\* submission for each note that is not a system note and whose author is
\* the fork owner up to case, in order, and nothing else; each has the
\* master path as repository, repo_type codepath_repo and
\* is_codepath_submission true.
C7_MasterCommentsByOwner ==
    [][pc = "master_notes" =>
          /\ CommentIds(NewSubmissions) = NoteIds(SelectSeq(fetched, OwnerNote))
          /\ \A k \in DOMAIN NewSubmissions :
                /\ NewSubmissions[k].submission_type = "COMMENT"
                /\ NewSubmissions[k].repository = master_project
                /\ NewSubmissions[k].repo_type = "codepath_repo"
                /\ NewSubmissions[k].is_codepath_submission]_vars

\* al's fork, a master issue with notes by "Al" and by al: two comments
\* filed under the master project
C7_Witness ==
    /\ pc = "master_issues"
    /\ issue_idx = 2
    /\ ForkOwner(forks[idx]) = Al
    /\ CommentIds(all_submissions) = <<12, 11>>
    /\ \A k \in DOMAIN all_submissions :
          /\ all_submissions[k].repository = master_project
          /\ all_submissions[k].repo_type = "codepath_repo"
          /\ all_submissions[k].is_codepath_submission

AnswerFailed(pages) == \E k \in 1..Len(pages) : FailsAt(pages, k)

FirstFailure(pages) == CHOOSE k \in 1..Len(pages) : FailsAt(pages, k)

\* a step of fetch_submissions that made a listing request and got an answer
\* with a failed page
FailedRequestStep ==
    /\ pc # "main"
    /\ response' # response
    /\ AnswerFailed(response')

\* the list such a step obtained
ObtainedList ==
    CASE pc' = "forks" -> forks'
      [] pc' \in {"fork_issues", "master_issues"} -> issues'
      [] OTHER -> fetched'

\* C14 as stated: a failed fetch of a fork, issue, notes or merge-request
\* list gives zero results for that list, does not end the run, and leaves
\* the submissions emitted so far as they are.
C14_FailedFetchIsNoResults ==
    [][FailedRequestStep =>
          /\ pc' # "raised"
          /\ ObtainedList = <<>>
          /\ all_submissions' = all_submissions]_vars

\* C14 (amended): a failed fetch ends that list where it failed: the list is
\* the pages fetched before the failing one, none when the first page
\* fails; the run is not ended and the submissions emitted so far stay as
\* they are.
C14_FailedFetchEndsList ==
    [][FailedRequestStep =>
          /\ pc' # "raised"
          /\ ObtainedList = PagesUpTo(response', FirstFailure(response') - 1)
          /\ FirstFailure(response') = 1 => ObtainedList = <<>>
          /\ all_submissions' = all_submissions]_vars

\* the second page of an issue's notes failed: the note of the first page is
\* what the loop will run over
C14_Witness ==
    /\ pc = "fork_notes"
    /\ FailsAt(response, 2)
    /\ fetched = response[1].results
    /\ Len(fetched) = 1

\* C15: a record that lacks an expected field never ends the run with an
\* uncaught error.
C15_MissingFieldNeverFatal ==
    [][(/\ pc \in {"fork_issues", "master_issues"}
        /\ issue_idx <= Len(issues)
        /\ "iid" \notin DOMAIN issues[issue_idx])
           => pc' # "raised"]_vars

\* C17: the process ends with a non-zero status exactly when
\* --master-project is missing or the master project could not be fetched.
C17_NonZeroExitOnlyWithoutMaster ==
    pc \in {"usage_exit", "master_not_found", "raised", "returned"} =>
        (ExitStatus # 0
            <=> (arg.master_project = <<>> \/ pc = "master_not_found"))

\* C20: every submission extraction returns carries validity_status "VALID"
\* when its is_valid is true and "INVALID" when it is false.
C20_StatusFollowsVerdict ==
    \A i \in 1..Len(all_submissions) :
        all_submissions[i].validity_status
            = (IF all_submissions[i].is_valid THEN "VALID" ELSE "INVALID")

C20_Witness ==
    /\ pc = "returned"
    /\ \E i \in 1..Len(all_submissions) :
           all_submissions[i].is_valid /\ all_submissions[i].validity_status = "VALID"
    /\ \E i \in 1..Len(all_submissions) :
           ~all_submissions[i].is_valid /\ all_submissions[i].validity_status = "INVALID"

(***************************************************************************)
(* format_submissions: the grouping the report is printed from.  A         *)
(* repository path is the sequence of its '/'-separated segments, the      *)
(* empty string the empty sequence.                                        *)
(***************************************************************************)
MaxFormatLen == 2    \* length of the list handed to format_submissions

\* lines 807-819: the list the response carries, and what is printed when
\* there is none or it is empty
HasSubmissions(data) ==
    \/ "report" \in DOMAIN data /\ "submissions" \in DOMAIN data.report
    \/ "all_submissions" \in DOMAIN data
    \/ "submissions" \in DOMAIN data

SubmissionsOf(data) ==
    IF "report" \in DOMAIN data /\ "submissions" \in DOMAIN data.report
    THEN data.report.submissions
    ELSE IF "all_submissions" \in DOMAIN data THEN data.all_submissions
    ELSE data.submissions

\* line 827
RepoFull(s) ==
    StrOr(Get(s, "source_repository", <<>>), Get(s, "repository", <<Unknown>>))

\* variant: the last segment of the path whether or not it has a '/'
ProjectName_LastSegment(s, repo_full) ==
    IF repo_full = <<>> THEN <<>> ELSE repo_full[Len(repo_full)]

\* lines 829-832
ProjectName(s, repo_full) ==
    IF Len(repo_full) > 1 THEN repo_full[Len(repo_full)]
    ELSE Get(s, "repo_name", Unknown)

\* line 835: by_project[repo_name][student].append(submission)
GroupAppend(by_project, project, who, s) ==
    LET students == IF project \in DOMAIN by_project THEN by_project[project]
                    ELSE EmptyDict
        list == IF who \in DOMAIN students THEN students[who] ELSE <<>>
        added == [w \in DOMAIN students \cup {who} |->
                     IF w = who THEN Append(list, s) ELSE students[w]]
    IN  [k \in DOMAIN by_project \cup {project} |->
            IF k = project THEN added ELSE by_project[k]]

RECURSIVE GroupLoop(_, _, _)
GroupLoop(subs, i, by_project) ==
    IF i > Len(subs) THEN by_project
    ELSE GroupLoop(subs, i + 1,
                   GroupAppend(by_project, ProjectName(subs[i], RepoFull(subs[i])),
                               Get(subs[i], "student", Unknown), subs[i]))

NoSubmissionsInResponse == "No submissions found in response"
SubmissionsListEmpty == "No submissions found (submissions list is empty)"

FormatGrouped(subs) ==
    IF subs = <<>> THEN [out |-> <<SubmissionsListEmpty>>, by_project |-> EmptyDict]
    ELSE [out |-> <<>>, by_project |-> GroupLoop(subs, 1, EmptyDict)]

format_submissions(data) ==
    IF ~HasSubmissions(data)
    THEN [out |-> <<NoSubmissionsInResponse>>, by_project |-> EmptyDict]
    ELSE FormatGrouped(SubmissionsOf(data))

App == <<"a", "p", "p">>
Old == <<"o", "l", "d">>

\* submissions with and without each of the three fields the project name
\* is taken from, the paths with and without a '/'
SourceRepositoryFields ==
    {<<>>} \cup {[source_repository |-> p] : p \in {<<>>, <<Web>>, <<Al, Web>>}}

RepositoryFields == {<<>>, [repository |-> <<Bo, App>>]}

RepoNameFields == {<<>>, [repo_name |-> Old]}

FormatInputs ==
    {[student |-> w] @@ a @@ b @@ c :
        w \in {Al, Bo}, a \in SourceRepositoryFields, b \in RepositoryFields,
        c \in RepoNameFields}

FormatData(n) ==
    LET lists == ListsOf(FormatInputs, n)
    IN  {[report |-> [submissions |-> l]] : l \in lists}
        \cup {[all_submissions |-> l] : l \in lists}
        \cup {[submissions |-> l] : l \in lists}
        \cup {[success |-> TRUE]}

InitFormat ==
    /\ pc = "format"
    /\ GetIdle /\ BatchIdle
    /\ arg \in FormatData(MaxFormatLen)
    /\ ret = <<>>
    /\ start_date = <<>> /\ end_date = <<>> /\ printed = <<>>
    /\ ValidateIdle /\ FilterIdle /\ ExtractIdle

Format ==
    /\ pc = "format"
    /\ LET r == format_submissions(arg)
       IN  /\ ret' = r.by_project
           /\ printed' = printed \o r.out
    /\ pc' = "formatted"
    /\ UNCHANGED <<file, attempted, get_page, get_results, sent, arg, response,
                   sub, submissions, start_date, end_date, filtered, student,
                   forks, idx, issues, issue_idx, fetched, all_submissions>>

NextFormat == Format

SpecFormat == InitFormat /\ [][NextFormat]_vars

\* the submissions the report was printed for
Formatted == IF HasSubmissions(arg) THEN SubmissionsOf(arg) ELSE <<>>

Last(path) == path[Len(path)]

\* the project a submission is grouped under, and nowhere else
GroupedUnder(s, project) ==
    /\ project \in DOMAIN ret
    /\ \E w \in DOMAIN ret[project] :
           \E i \in 1..Len(ret[project][w]) : ret[project][w][i] = s
    /\ \A k \in DOMAIN ret \ {project} : \A w \in DOMAIN ret[k] :
           \A i \in 1..Len(ret[k][w]) : ret[k][w][i] # s

\* the project name as the report's description gives it: the last segment
\* of source_repository if present, otherwise of repository, otherwise the
\* repo_name field
ProjectAsDescribed(s) ==
    LET src == Get(s, "source_repository", <<>>)
        repo == Get(s, "repository", <<>>)
    IN  IF src # <<>> THEN Last(src)
        ELSE IF repo # <<>> THEN Last(repo)
        ELSE Get(s, "repo_name", Unknown)

\* the same, a path counting only when it contains a '/'
ProjectWhenPath(s) ==
    LET src == Get(s, "source_repository", <<>>)
        repo == Get(s, "repository", <<>>)
    IN  IF src # <<>>
        THEN (IF Len(src) > 1 THEN Last(src) ELSE Get(s, "repo_name", Unknown))
        ELSE IF Len(repo) > 1 THEN Last(repo)
        ELSE Get(s, "repo_name", Unknown)

\* C13 as stated: every submission is grouped under the last path segment of
\* its source_repository if present, otherwise of its repository, otherwise
\* under its repo_name field.
C13_GroupedAsDescribed ==
    pc = "formatted" =>
        \A i \in 1..Len(Formatted) :
            GroupedUnder(Formatted[i], ProjectAsDescribed(Formatted[i]))

\* C13 (amended): every submission is grouped under the last path segment of
\* its source_repository if that is present and non-empty, otherwise of its
\* repository, provided the path taken contains a '/'; when it contains
\* none, or neither field is present, under its repo_name field ('unknown'
\* when absent).
C13_GroupedByPathOrRepoName ==
    pc = "formatted" =>
        \A i \in 1..Len(Formatted) :
            GroupedUnder(Formatted[i], ProjectWhenPath(Formatted[i]))

C13_Witness ==
    /\ pc = "formatted"
    /\ \E i \in 1..Len(Formatted) :
          LET s == Formatted[i]
          IN  /\ Get(s, "source_repository", <<>>) = <<Web>>
              /\ "repository" \in DOMAIN s /\ "repo_name" \in DOMAIN s
              /\ GroupedUnder(s, Old)
    /\ \E i \in 1..Len(Formatted) :
          /\ Get(Formatted[i], "source_repository", <<>>) = <<Al, Web>>
          /\ GroupedUnder(Formatted[i], Web)


(***************************************************************************)
(* fetch_submissions called for one student, from the moment the forks     *)
(* have been listed (line 461)                                             *)
(***************************************************************************)
\* the forks listed: those of the extraction, and the fork of a user called
\* unknown, whose namespace carries a display name
StudentForkSet ==
    ForkSet \cup {[id |-> 4, owner |-> [username |-> Unknown],
                   namespace |-> [name |-> Bo],
                   path_with_namespace |-> <<Unknown, Web>>]}

InitStudent ==
    /\ pc = "forks"
    /\ GetIdle /\ BatchIdle
    /\ arg = [master_project |-> master_project]
    /\ student \in {<<"A", "L">>, Unknown}
    /\ start_date = <<>> /\ end_date = <<>>
    /\ forks \in ListsOf(StudentForkSet, MaxForks)
    /\ response = <<[status |-> 200, results |-> forks, next |-> FALSE]>>
    /\ idx = 0 /\ issues = <<>> /\ issue_idx = 0 /\ fetched = <<>>
    /\ all_submissions = <<>> /\ printed = <<>> /\ ret = <<>>
    /\ ValidateIdle /\ FilterIdle

NextStudent ==
    \/ Start
    \/ SkipFork
    \/ FetchForkIssues
    \/ ForkIssueRaises
    \/ FetchForkNotes
    \/ ForkIssueNotes
    \/ FetchMasterIssues
    \/ MasterIssueRaises
    \/ FetchMasterNotes
    \/ MasterIssueNotes
    \/ FetchMergeRequests
    \/ ForkMergeRequests
    \/ FetchMasterRepoMergeRequests
    \/ MasterMergeRequests
    \/ Finish

SpecStudent == InitStudent /\ [][NextStudent]_vars

\* C28: with a student filter, the forks processed are those whose owner
\* username is the requested student up to case, and every submission in
\* the result carries a student equal to the requested student up to case.
C28_OnlyTheStudent ==
    (student # <<>> /\ pc \notin {"main", "start", "forks"}) =>
        /\ \A k \in DOMAIN forks :
              Lower(Get(Get(forks[k], "owner", <<>>), "username", <<>>))
                  = Lower(student)
        /\ \A i \in DOMAIN all_submissions :
              Lower(all_submissions[i].student) = Lower(student)

\* the submissions that name the same merge request of the same repository
SameMergeRequest(subs, repository, iid) ==
    {i \in DOMAIN subs :
        /\ subs[i].submission_type = "PULL_REQUEST"
        /\ subs[i].repository = repository
        /\ subs[i].pr_number = iid}

\* C25: the loop over the master project's listing for a fork appends one
\* codepath_repo PULL_REQUEST submission for every merge request listed, in
\* order, whatever was emitted before and without touching it; a merge
\* request already emitted for the master project from the fork's own
\* listing is then in the result once more, with the same repository and
\* pr_number.
C25_NoDeduplication ==
    [][pc = "master_repo_mrs" =>
          /\ SubSeq(all_submissions', 1, Len(all_submissions)) = all_submissions
          /\ Len(NewSubmissions) = Len(fetched)
          /\ \A k \in DOMAIN fetched :
                /\ NewSubmissions[k].submission_type = "PULL_REQUEST"
                /\ NewSubmissions[k].repo_type = "codepath_repo"
                /\ NewSubmissions[k].repository = master_project
                /\ NewSubmissions[k].pr_number = fetched[k].iid
                /\ Cardinality(SameMergeRequest(all_submissions', master_project,
                                                fetched[k].iid))
                      > Cardinality(SameMergeRequest(all_submissions, master_project,
                                                     fetched[k].iid))]_vars

\* the merge request from al's fork to the master project was found by the
\* fork's listing and by the master project's, and is in the result twice
C25_Witness ==
    /\ pc = "fork_loop"
    /\ idx = 2
    /\ Len(all_submissions) = 2
    /\ SameMergeRequest(all_submissions, master_project, MergeRequest(2, 1).iid)
           = {1, 2}
    /\ all_submissions[1].source_repository = all_submissions[2].source_repository

\* the fork the loop is at carries no id
AtForkWithoutId ==
    /\ pc = "fork_loop"
    /\ idx <= Len(forks)
    /\ "id" \notin DOMAIN forks[idx]

\* no submission emitted so far was taken from a listed fork without an id
NothingFromForksWithoutId ==
    \A k \in DOMAIN forks :
        "id" \notin DOMAIN forks[k] =>
            \A i \in DOMAIN all_submissions :
                all_submissions[i].source_repository # ForkPath(forks[k])

\* C22: a fork without a resolvable project id contributes no submission
\* (no request is made for it, nothing is emitted for it), and skipping it
\* only moves the loop on to the next fork: the fork list, the submissions
\* gathered so far and the run's position are as they were.
C22_SkippedForkContributesNothing ==
    [][/\ (pc' \notin {"main", "start", "forks"} => NothingFromForksWithoutId')
       /\ (AtForkWithoutId =>
              /\ idx' = idx + 1
              /\ pc' = "fork_loop"
              /\ forks' = forks
              /\ all_submissions' = all_submissions
              /\ response' = response)]_vars

\* a fork without an id was skipped and the fork after it yielded submissions
C22_Witness ==
    /\ pc = "fork_loop"
    /\ idx = 3
    /\ "id" \notin DOMAIN forks[1]
    /\ Len(all_submissions) > 0
    /\ \A i \in DOMAIN all_submissions :
           all_submissions[i].source_repository = ForkPath(forks[2])

(***************************************************************************)
(* The owner attributed to one fork (fetch_submissions, lines 496-511)     *)
(***************************************************************************)
Cy == <<"c", "y">>

\* fork records with and without each source of the owner; an owner or a
\* namespace or a creator may be listed without its name, and a user may
\* be called unknown
OwnerFields ==
    {<<>>} \cup {[owner |-> o] : o \in {<<>>, [username |-> Al], [username |-> Unknown]}}

NamespaceFields == {<<>>} \cup {[namespace |-> n] : n \in {<<>>, [name |-> Bo]}}

CreatorFields == {<<>>} \cup {[creator |-> c] : c \in {<<>>, [username |-> Cy]}}

PathFields ==
    {<<>>} \cup {[path_with_namespace |-> q] : q \in {<<Web>>, <<(<<"g">>), Web>>}}

OwnerForks ==
    {[id |-> 2] @@ a @@ b @@ c @@ d :
        a \in OwnerFields, b \in NamespaceFields, c \in CreatorFields,
        d \in PathFields}

InitOwner ==
    /\ pc = "owner"
    /\ GetIdle /\ BatchIdle
    /\ arg \in OwnerForks
    /\ ret = <<>>
    /\ start_date = <<>> /\ end_date = <<>> /\ printed = <<>>
    /\ ValidateIdle /\ FilterIdle /\ ExtractIdle

Owner ==
    /\ pc = "owner"
    /\ ret' = ForkOwner(arg)
    /\ pc' = "owned"
    /\ UNCHANGED <<file, attempted, get_page, get_results, sent, arg, response,
                   sub, submissions, start_date, end_date, filtered, printed,
                   student, forks, idx, issues, issue_idx, fetched,
                   all_submissions>>

NextOwner == Owner

SpecOwner == InitOwner /\ [][NextOwner]_vars

Has(fork, outer, inner) == outer \in DOMAIN fork /\ inner \in DOMAIN fork[outer]

\* the ordered fallback, each source used exactly when it is there and
\* every earlier one is not
OwnerAsDescribed(fork) ==
    IF Has(fork, "owner", "username") THEN fork.owner.username
    ELSE IF Has(fork, "namespace", "name") THEN fork.namespace.name
    ELSE IF Has(fork, "creator", "username") THEN fork.creator.username
    ELSE IF "path_with_namespace" \in DOMAIN fork /\ Len(fork.path_with_namespace) > 1
         THEN fork.path_with_namespace[1]
    ELSE Unknown

\* C21: the student of a fork is its owner's username if present, else the
\* namespace name, else the creator's username, else the first segment of a
\* path of more than one segment, else "unknown"; a later source is used
\* only when every earlier one is absent.
C21_OrderedFallback ==
    pc = "owned" => ret = OwnerAsDescribed(arg)


(***************************************************************************)
(* GitLabAPI._get step by step: one request at a time, the server free to  *)
(* answer each request with any page.  pc is "get_loop" at the head of the *)
(* while loop (line 55), "get_wait" while session.get is under way (line   *)
(* 59), "get_response" once it has answered, "get_return" after a break    *)
(* and "got" once line 91 has returned.                                    *)
(***************************************************************************)
\* variant: the x-next-page header is not looked at
HasNextPage_Ignored(r) == TRUE

\* line 70: the x-next-page header is there and not empty
HasNextPage(r) == r.next

\* variant: an empty page does not end the loop
IsEmptyPage_Never(r) == FALSE

\* line 64: `not results`
IsEmptyPage(r) == r.results = <<>>

LastResponse == response[Len(response)]

InitPages ==
    /\ pc = "get_loop"
    /\ get_page = 1 /\ get_results = <<>> /\ sent = <<>>
    /\ response = <<>>
    /\ BatchIdle
    /\ start_date = <<>> /\ end_date = <<>> /\ printed = <<>>
    /\ ValidateIdle /\ FilterIdle /\ CallIdle
    /\ student = <<>> /\ forks = <<>> /\ idx = 0
    /\ issues = <<>> /\ issue_idx = 0
    /\ fetched = <<>> /\ all_submissions = <<>>

\* lines 56-59: params['page'] = page and the request goes out
SendRequest ==
    /\ pc = "get_loop"
    /\ get_page <= MaxPages
    /\ sent' = Append(sent, get_page)
    /\ pc' = "get_wait"
    /\ UNCHANGED <<file, attempted, get_page, get_results, arg, ret, response,
                   sub, submissions, start_date, end_date, filtered, printed,
                   student, forks, idx, issues, issue_idx, fetched,
                   all_submissions>>

\* line 59: the server answers
Receive ==
    /\ pc = "get_wait"
    /\ \E r \in PageSet : response' = Append(response, r)
    /\ pc' = "get_response"
    /\ UNCHANGED <<file, attempted, get_page, get_results, sent, arg, ret, sub,
                   submissions, start_date, end_date, filtered, printed,
                   student, forks, idx, issues, issue_idx, fetched,
                   all_submissions>>

\* lines 60, 75-89: raise_for_status or the transport raised
RequestFailed ==
    /\ pc = "get_response"
    /\ LastResponse.status # 200
    /\ printed' = printed \o ErrorLines(LastResponse.status)
    /\ pc' = "get_return"
    /\ UNCHANGED <<file, attempted, get_page, get_results, sent, arg, ret,
                   response, sub, submissions, start_date, end_date, filtered,
                   student, forks, idx, issues, issue_idx, fetched,
                   all_submissions>>

\* lines 62-65: an empty page
EmptyPage ==
    /\ pc = "get_response"
    /\ LastResponse.status = 200
    /\ IsEmptyPage(LastResponse)
    /\ pc' = "get_return"
    /\ UNCHANGED <<file, attempted, get_page, get_results, sent, arg, ret,
                   response, sub, submissions, start_date, end_date, filtered,
                   printed, student, forks, idx, issues, issue_idx, fetched,
                   all_submissions>>

\* lines 67-71: the page is kept and no further page is announced
LastPage ==
    /\ pc = "get_response"
    /\ LastResponse.status = 200
    /\ ~IsEmptyPage(LastResponse)
    /\ ~HasNextPage(LastResponse)
    /\ get_results' = get_results \o LastResponse.results
    /\ pc' = "get_return"
    /\ UNCHANGED <<file, attempted, get_page, sent, arg, ret, response, sub,
                   submissions, start_date, end_date, filtered, printed,
                   student, forks, idx, issues, issue_idx, fetched,
                   all_submissions>>

\* lines 67-73: the page is kept and the next one is asked for
NextPage ==
    /\ pc = "get_response"
    /\ LastResponse.status = 200
    /\ ~IsEmptyPage(LastResponse)
    /\ HasNextPage(LastResponse)
    /\ get_results' = get_results \o LastResponse.results
    /\ get_page' = get_page + 1
    /\ pc' = "get_loop"
    /\ UNCHANGED <<file, attempted, sent, arg, ret, response, sub, submissions,
                   start_date, end_date, filtered, printed, student, forks,
                   idx, issues, issue_idx, fetched, all_submissions>>

\* line 91
Return ==
    /\ pc = "get_return"
    /\ ret' = get_results
    /\ pc' = "got"
    /\ UNCHANGED <<file, attempted, get_page, get_results, sent, arg, response,
                   sub, submissions, start_date, end_date, filtered, printed,
                   student, forks, idx, issues, issue_idx, fetched,
                   all_submissions>>

NextPages ==
    \/ SendRequest
    \/ Receive
    \/ RequestFailed
    \/ EmptyPage
    \/ LastPage
    \/ NextPage
    \/ Return

SpecPages == InitPages /\ [][NextPages]_vars

\* the steps of _get itself are taken when they can be; the server owes
\* no answer
SpecPagesFair ==
    SpecPages
        /\ WF_vars(SendRequest \/ RequestFailed \/ EmptyPage \/ LastPage
                       \/ NextPage \/ Return)

\* an answer after which the loop asks for the next page
Continues(r) == r.status = 200 /\ r.results # <<>> /\ r.next

\* what an answer contributes to the result
ResultsOf(r) == IF r.status = 200 THEN r.results ELSE <<>>

RECURSIVE Concatenated(_)
Concatenated(answers) ==
    IF answers = <<>> THEN <<>>
    ELSE ResultsOf(Head(answers)) \o Concatenated(Tail(answers))

\* C23: _get asks for pages 1, 2, 3, ... in increasing order and one at a
\* time (a request goes out only when every earlier one was answered); no
\* page is asked for after a page that is empty or announces no next page;
\* the result is the concatenation of the fetched pages in page order.
C23_PagesInOrder ==
    [][/\ sent' = [k \in 1..Len(sent') |-> k]
       /\ Len(sent') \in {Len(response'), Len(response') + 1}
       /\ (sent' # sent =>
              /\ Len(sent) = Len(response)
              /\ \A k \in DOMAIN response : Continues(response[k]))
       /\ (pc' = "got" => ret' = Concatenated(response'))]_vars

C23_Witness ==
    /\ pc = "got"
    /\ sent = <<1, 2, 3>>
    /\ response[3].status = 200
    /\ ~response[3].next
    /\ ret = response[1].results \o response[2].results \o response[3].results
    /\ response[3].results # <<>>


\* the last answer received lets the loop end
EndingAnswered ==
    /\ pc = "get_response"
    /\ ~Continues(LastResponse)

\* C24: _get returns whenever the server answers one of its requests with
\* an empty page, a page that announces no next page, or an error; it asks
\* again only after a page that is not empty and announces a next page.
C24_TerminatesOnEndingAnswer ==
    /\ EndingAnswered ~> (pc = "got")
    /\ [][(pc = "get_response" /\ pc' = "get_loop") => Continues(LastResponse)]_vars

C24_Witness ==
    /\ pc = "got"
    /\ Len(response) = 2
    /\ Continues(response[1])
    /\ response[2].status = 200
    /\ response[2].results = <<>>
    /\ response[2].next


(***************************************************************************)
(* A submission from the moment extraction has built it: validated where   *)
(* it is built (lines 576, 627, 675, 698, 726), filtered by date at the    *)
(* end of fetch_submissions (line 734), then grouped (lines 826-835) and   *)
(* aggregated (line 843) by format_submissions.                            *)
(***************************************************************************)
MaxPipelineLen == 2    \* submissions followed through the pipeline

\* submissions as extraction builds them: al's comments in the fork, in
\* and before December, and Bo's merge request to the master project,
\* with and without the issues it addresses
BuiltComment(text, date) ==
    [student |-> Al, repository |-> <<Al, Web>>, repo_name |-> Web,
     owner_name |-> Al, source_repository |-> <<Al, Web>>,
     submission_type |-> "COMMENT", submission_date |-> date,
     issue_number |-> 1, issue_title |-> "Getting started",
     issue_display |-> <<"#", 1>>, comment_id |-> 11, comment_text |-> text,
     repo_type |-> "student_fork", is_codepath_submission |-> FALSE,
     addressed_issues |-> <<>>]

BuiltPullRequest(addressed) ==
    [student |-> Bo, repository |-> master_project, repo_name |-> Web,
     owner_name |-> Bo, source_repository |-> <<Bo, Web>>,
     submission_type |-> "PULL_REQUEST",
     submission_date |-> IsoDate(<<2023, 12, 31>>, <<23, 59>>, <<"Z">>),
     pr_number |-> 31, pr_title |-> "Add feature",
     pr_description |-> MediaAndIssueText,
     repo_type |-> "codepath_repo", is_codepath_submission |-> TRUE,
     addressed_issues |-> addressed]

PipelineInputs ==
    { BuiltComment(MediaText, IsoDate(<<2023, 12, 1>>, <<23, 59>>, <<"Z">>)),
      BuiltComment(<<>>, IsoDate(<<2023, 11, 30>>, <<23, 59>>, <<"Z">>)),
      BuiltPullRequest(<<>>),
      BuiltPullRequest(<<7>>) }

InitPipeline ==
    /\ pc = "built"
    /\ GetIdle /\ BatchIdle
    /\ submissions \in ListsOf(PipelineInputs, MaxPipelineLen)
    /\ start_date \in {<<>>, PlainDate(<<2023, 12, 1>>)}
    /\ end_date = <<>>
    /\ filtered = <<>> /\ printed = <<>>
    /\ ValidateIdle /\ ExtractIdle /\ CallIdle

\* lines 576, 627, 675, 698, 726: each submission is validated as it is built
ValidateBuilt ==
    /\ pc = "built"
    /\ submissions' =
          [i \in 1..Len(submissions) |-> validate_submission(submissions[i])]
    /\ pc' = "validated"
    /\ UNCHANGED <<file, attempted, get_page, get_results, sent, arg, ret,
                   response, sub, start_date, end_date, filtered, printed,
                   student, forks, idx, issues, issue_idx, fetched,
                   all_submissions>>

\* lines 731-734: the date filter
FilterCollected ==
    /\ pc = "validated"
    /\ LET r == filter_submissions_by_date(submissions, start_date, end_date)
       IN  /\ filtered' = r.ret
           /\ printed' = printed \o r.out
           /\ pc' = IF r.exc = "none" THEN "filtered" ELSE "raised"
    /\ submissions' = FilterArgumentAfter(submissions, start_date, end_date)
    /\ UNCHANGED <<file, attempted, get_page, get_results, sent, arg, ret,
                   response, sub, start_date, end_date, student, forks, idx,
                   issues, issue_idx, fetched, all_submissions>>

\* lines 803-835: format_submissions groups what fetch_submissions returned
GroupCollected ==
    /\ pc = "filtered"
    /\ LET r == format_submissions([all_submissions |-> filtered])
       IN  /\ ret' = [by_project |-> r.by_project]
           /\ printed' = printed \o r.out
           /\ pc' = IF filtered = <<>> THEN "formatted" ELSE "grouped"
    /\ UNCHANGED <<file, attempted, get_page, get_results, sent, arg, response,
                   sub, submissions, start_date, end_date, filtered, student,
                   forks, idx, issues, issue_idx, fetched, all_submissions>>

\* line 843: the date ranges of the students
AggregateCollected ==
    /\ pc = "grouped"
    /\ ret' = [by_project |-> ret.by_project,
               student_date_ranges |-> get_student_date_ranges(filtered)]
    /\ pc' = "formatted"
    /\ UNCHANGED <<file, attempted, get_page, get_results, sent, arg, response,
                   sub, submissions, start_date, end_date, filtered, printed,
                   student, forks, idx, issues, issue_idx, fetched,
                   all_submissions>>

NextPipeline ==
    \/ ValidateBuilt
    \/ FilterCollected
    \/ GroupCollected
    \/ AggregateCollected

SpecPipeline == InitPipeline /\ [][NextPipeline]_vars

VerdictFields == {"is_valid", "validity_reasons", "validity_status"}

\* after differs from before in the three fields of the verdict at most
OnlyVerdictChanged(before, after) ==
    /\ DOMAIN after = DOMAIN before \cup VerdictFields
    /\ \A k \in DOMAIN before \ VerdictFields : after[k] = before[k]

\* the submissions filed under some project and student
GroupedRecords(by_project) ==
    UNION {UNION {{by_project[k][w][i] : i \in DOMAIN by_project[k][w]} :
                     w \in DOMAIN by_project[k]} :
              k \in DOMAIN by_project}

Range(seq) == {seq[i] : i \in DOMAIN seq}

\* C26: validate_submission changes the fields is_valid, validity_reasons
\* and validity_status of a submission and no other; the date filter hands
\* on submissions as they were handed in and leaves its input alone;
\* grouping and aggregation file the very submissions they were given and
\* leave the list alone.
C26_OnlyValidationWrites ==
    [][/\ pc = "built" =>
            /\ Len(submissions') = Len(submissions)
            /\ \A i \in DOMAIN submissions :
                  OnlyVerdictChanged(submissions[i], submissions'[i])
       /\ pc = "validated" =>
            /\ submissions' = submissions
            /\ Range(filtered') \subseteq Range(submissions)
       /\ pc = "filtered" =>
            /\ submissions' = submissions /\ filtered' = filtered
            /\ GroupedRecords(ret'.by_project) = Range(filtered)
       /\ pc = "grouped" =>
            /\ submissions' = submissions /\ filtered' = filtered
            /\ ret'.by_project = ret.by_project]_vars

\* a comment and a merge request that addresses an issue went through
\* validation, the filter, grouping and aggregation
C26_Witness ==
    /\ pc = "formatted"
    /\ start_date # <<>>
    /\ Len(filtered) = 2
    /\ filtered[1].submission_type = "COMMENT"
    /\ filtered[1].comment_text = MediaText
    /\ filtered[2].addressed_issues = <<7>>
    /\ filtered[2].is_valid
    /\ "student_date_ranges" \in DOMAIN ret


(***************************************************************************)
(* validate_submission applied to one submission, and to what it returned  *)
(***************************************************************************)
ValidateAgain ==
    /\ pc = "validated"
    /\ sub' = validate_submission(sub)
    /\ pc' = "revalidated"
    /\ UNCHANGED <<file, attempted, get_page, get_results, sent, arg, ret,
                   response, submissions, start_date, end_date, filtered,
                   printed, student, forks, idx, issues, issue_idx, fetched,
                   all_submissions>>

NextRevalidate ==
    \/ Validate
    \/ ValidateAgain

SpecRevalidate == InitValidate /\ [][NextRevalidate]_vars

\* C27: validating a validated submission again gives the same is_valid,
\* the same validity_reasons (replaced, not added to) and the same
\* validity_status.
C27_ValidationIdempotent ==
    [][pc = "validated" =>
          /\ sub'.is_valid = sub.is_valid
          /\ sub'.validity_reasons = sub.validity_reasons
          /\ sub'.validity_status = sub.validity_status
          /\ sub' = sub]_vars

\* a pull request found invalid for two reasons was validated twice
C27_Witness ==
    /\ pc = "revalidated"
    /\ sub.submission_type = "PULL_REQUEST"
    /\ ~sub.is_valid
    /\ Len(sub.validity_reasons) = 2
    /\ sub.validity_status = "INVALID"


(***************************************************************************)
(* main.py: the side file master_submissions.txt.  Its content is the      *)
(* sequence of its characters.  In a list of users a dict is the record of *)
(* its keys, and a plain string is the record [str |-> its characters].    *)
(***************************************************************************)
\* the characters that occur, in code point order
CodePoints ==
    <<"\n", " ", "#", ",", "a", "b", "g", "h", "i", "k", "n", "o", "t", "u", "w", "x">>

Ord(c) == CHOOSE k \in DOMAIN CodePoints : CodePoints[k] = c

\* str < str
RECURSIVE StrLess(_, _)
StrLess(a, b) ==
    IF b = <<>> THEN FALSE
    ELSE IF a = <<>> THEN TRUE
    ELSE IF Head(a) # Head(b) THEN Ord(Head(a)) < Ord(Head(b))
    ELSE StrLess(Tail(a), Tail(b))

\* tuple < tuple for (username, provider)
PairLess(p, q) ==
    IF p[1] # q[1] THEN StrLess(p[1], q[1]) ELSE StrLess(p[2], q[2])

Github == <<"g", "i", "t", "h", "u", "b">>

IsDict(entry) == "str" \notin DOMAIN entry

\* line 322: the key the dicts are sorted by
EntryKey(entry) == <<Get(entry, "username", <<>>), Get(entry, "provider", <<>>)>>

\* sorted(): stable, by the key
RECURSIVE InsertEntry(_, _)
InsertEntry(sorted, entry) ==
    IF sorted = <<>> THEN <<entry>>
    ELSE IF PairLess(EntryKey(entry), EntryKey(sorted[Len(sorted)]))
         THEN Append(InsertEntry(SubSeq(sorted, 1, Len(sorted) - 1), entry),
                     sorted[Len(sorted)])
         ELSE Append(sorted, entry)

RECURSIVE SortEntries(_, _)
SortEntries(entries, n) ==
    IF n = 0 THEN <<>> ELSE InsertEntry(SortEntries(entries, n - 1), entries[n])

\* variant: the entries are written in the order given
SortedEntries_AsGiven(entries) == entries

\* line 322: sorted(owner_submission_users, key=...)
SortedEntries(entries) == SortEntries(entries, Len(entries))

RECURSIVE InsertStr(_, _)
InsertStr(sorted, entry) ==
    IF sorted = <<>> THEN <<entry>>
    ELSE IF StrLess(entry.str, sorted[Len(sorted)].str)
         THEN Append(InsertStr(SubSeq(sorted, 1, Len(sorted) - 1), entry),
                     sorted[Len(sorted)])
         ELSE Append(sorted, entry)

RECURSIVE SortStrs(_, _)
SortStrs(entries, n) ==
    IF n = 0 THEN <<>> ELSE InsertStr(SortStrs(entries, n - 1), entries[n])

\* line 328: sorted(owner_submission_users)
SortedStrs(entries) == SortStrs(entries, Len(entries))

\* lines 323-325: f"{username},{provider}\n"
DictLine(entry) ==
    Get(entry, "username", Unknown) \o <<",">> \o Get(entry, "provider", Unknown)
        \o <<"\n">>

\* line 329: f"{user},github\n"
StrLine(entry) == entry.str \o <<",">> \o Github \o <<"\n">>

RECURSIVE DictLines(_)
DictLines(entries) ==
    IF entries = <<>> THEN <<>>
    ELSE DictLine(Head(entries)) \o DictLines(Tail(entries))

RECURSIVE StrLines(_)
StrLines(entries) ==
    IF entries = <<>> THEN <<>>
    ELSE StrLine(Head(entries)) \o StrLines(Tail(entries))

\* lines 306-311: the list, under 'report' or at the top
OwnerSubmissionUsers(data) ==
    IF "report" \in DOMAIN data /\ "owner_submission_users" \in DOMAIN data.report
    THEN data.report.owner_submission_users
    ELSE Get(data, "owner_submission_users", <<>>)

AllDicts(entries) == \A k \in DOMAIN entries : IsDict(entries[k])

AllStrs(entries) == \A k \in DOMAIN entries : ~IsDict(entries[k])

\* lines 317-335: the file is opened for writing, which empties it; a list
\* of dicts and plain strings raises in x.get or in sorted() before a line
\* is written, and the except clause returns False
WriteUsers(users) ==
    IF IsDict(users[1])
    THEN IF AllDicts(users)
         THEN [file |-> [content |-> DictLines(SortedEntries(users))],
               out |-> <<"Saved owner submission users">>, ret |-> TRUE]
         ELSE [file |-> [content |-> <<>>],
               out |-> <<"Error saving owner submission users to file">>,
               ret |-> FALSE]
    ELSE IF AllStrs(users)
         THEN [file |-> [content |-> StrLines(SortedStrs(users))],
               out |-> <<"Saved owner submission users">>, ret |-> TRUE]
         ELSE [file |-> [content |-> <<>>],
               out |-> <<"Error saving owner submission users to file">>,
               ret |-> FALSE]

\* lines 296-335; before is the file as it was
save_owner_submission_users(data, before) ==
    IF OwnerSubmissionUsers(data) = <<>>
    THEN [file |-> before,
          out |-> <<"No owner submission users data found in response">>,
          ret |-> <<>>]
    ELSE WriteUsers(OwnerSubmissionUsers(data))

\* the lines of a text file, each without its line end
RECURSIVE SplitOn(_, _, _)
SplitOn(chars, sep, current) ==
    IF chars = <<>> THEN <<current>>
    ELSE IF Head(chars) = sep THEN <<current>> \o SplitOn(Tail(chars), sep, <<>>)
    ELSE SplitOn(Tail(chars), sep, Append(current, Head(chars)))

SpaceChars == {" ", "\n"}

RECURSIVE LStrip(_)
LStrip(chars) ==
    IF chars # <<>> /\ Head(chars) \in SpaceChars THEN LStrip(Tail(chars)) ELSE chars

RECURSIVE RStrip(_)
RStrip(chars) ==
    IF chars # <<>> /\ chars[Len(chars)] \in SpaceChars
    THEN RStrip(SubSeq(chars, 1, Len(chars) - 1))
    ELSE chars

\* str.strip()
Strip(chars) == RStrip(LStrip(chars))

\* lines 353-364: what one stripped line adds to users
ParsedLine(line, parts) ==
    IF line = <<>> \/ Head(line) = "#" THEN <<>>
    ELSE IF Len(parts) >= 2 THEN <<(<<Strip(parts[1]), Strip(parts[2])>>)>>
    ELSE <<(<<Strip(parts[1]), Github>>)>>

ParseLine(line) == ParsedLine(line, SplitOn(line, ",", <<>>))

RECURSIVE ParseLines(_)
ParseLines(lines) ==
    IF lines = <<>> THEN <<>>
    ELSE ParseLine(Strip(Head(lines))) \o ParseLines(Tail(lines))

\* lines 338-372; the file read is what `for line in f` yields
read_master_submissions_file(f) ==
    IF f = <<>>
    THEN [ret |-> <<>>, out |-> <<"File not found">>]
    ELSE [ret |-> ParseLines(SplitOn(f.content, "\n", <<>>)), out |-> <<>>]


(***************************************************************************)
(* save_owner_submission_users, then read_master_submissions_file          *)
(***************************************************************************)
MaxUsers == 2    \* entries in the list of owner-submission users

\* usernames plain and empty, and with a comma, a leading blank, a leading
\* '#' and a line end in them
SideNames ==
    { <<"a">>, <<"b">>, <<"b", "a">>, <<>>, <<"a", ",">>, <<" ", "a">>,
      <<"#", "a">>, <<"a", "\n">> }

SideDicts ==
    {[username |-> u, provider |-> q] : u \in SideNames, q \in {<<"x">>, Github}}
    \cup {[username |-> <<"a">>]}

SideStrs == {[str |-> u] : u \in {<<"a">>, <<"b">>, <<>>, <<" ", "a">>, <<"#", "a">>}}

SideFileData(n) ==
    LET lists == ListsOf(SideDicts \cup SideStrs, n)
    IN  {[report |-> [owner_submission_users |-> l]] : l \in lists}
        \cup {[owner_submission_users |-> l] : l \in lists}
        \cup {[success |-> TRUE]}

InitSideFile ==
    /\ pc = "save"
    /\ GetIdle
    /\ arg \in SideFileData(MaxUsers)
    /\ file = <<>> /\ attempted = <<>>
    /\ ret = <<>>
    /\ start_date = <<>> /\ end_date = <<>> /\ printed = <<>>
    /\ ValidateIdle /\ FilterIdle /\ ExtractIdle

Save ==
    /\ pc = "save"
    /\ LET r == save_owner_submission_users(arg, file)
       IN  /\ file' = r.file
           /\ printed' = printed \o r.out
           /\ ret' = r.ret
    /\ pc' = "saved"
    /\ UNCHANGED <<attempted, get_page, get_results, sent, arg, response, sub,
                   submissions, start_date, end_date, filtered, student, forks,
                   idx, issues, issue_idx, fetched, all_submissions>>

Read ==
    /\ pc = "saved"
    /\ LET r == read_master_submissions_file(file)
       IN  /\ ret' = r.ret
           /\ printed' = printed \o r.out
    /\ pc' = "read"
    /\ UNCHANGED <<file, attempted, get_page, get_results, sent, arg, response,
                   sub, submissions, start_date, end_date, filtered, student,
                   forks, idx, issues, issue_idx, fetched, all_submissions>>

NextSideFile ==
    \/ Save
    \/ Read

SpecSideFile == InitSideFile /\ [][NextSideFile]_vars

\* no comma, no line end, no leading '#', no surrounding whitespace
CleanValue(v) ==
    /\ v = Strip(v)
    /\ \A k \in DOMAIN v : v[k] \notin {",", "\n"}
    /\ v = <<>> \/ v[1] # "#"

CleanDicts(users) ==
    /\ users # <<>>
    /\ \A k \in DOMAIN users :
          /\ IsDict(users[k])
          /\ {"username", "provider"} \subseteq DOMAIN users[k]
          /\ CleanValue(users[k].username)
          /\ CleanValue(users[k].provider)

CleanStrs(users) ==
    /\ users # <<>>
    /\ \A k \in DOMAIN users : ~IsDict(users[k]) /\ CleanValue(users[k].str)

GivenPairs(users) ==
    [k \in DOMAIN users |->
        IF IsDict(users[k]) THEN <<users[k].username, users[k].provider>>
        ELSE <<users[k].str, Github>>]

Count(seq, x) == Cardinality({k \in DOMAIN seq : seq[k] = x})

SamePairs(a, b) ==
    /\ Len(a) = Len(b)
    /\ \A x \in Range(a) \cup Range(b) : Count(a, x) = Count(b, x)

InOrder(pairs) ==
    \A i, j \in DOMAIN pairs : i < j => ~PairLess(pairs[j], pairs[i])

\* C30: a non-empty list of {username, provider} records, or of plain
\* usernames, whose values hold no comma, no line end, no leading '#' and
\* no surrounding whitespace, written by save_owner_submission_users and
\* read by read_master_submissions_file, comes back as the same pairs (the
\* provider "github" for plain usernames), each as often as given, sorted
\* by (username, provider).
C30_SideFileRoundTrip ==
    (/\ pc = "read"
     /\ \/ CleanDicts(OwnerSubmissionUsers(arg))
        \/ CleanStrs(OwnerSubmissionUsers(arg)))
        => /\ SamePairs(ret, GivenPairs(OwnerSubmissionUsers(arg)))
           /\ InOrder(ret)

\* two records given out of order were written and read back in order
C30_Witness ==
    /\ pc = "read"
    /\ CleanDicts(OwnerSubmissionUsers(arg))
    /\ Len(ret) = 2
    /\ ret # GivenPairs(OwnerSubmissionUsers(arg))
    /\ ret[1] = <<(<<"a">>), Github>>
    /\ ret[2] = <<(<<"b", "a">>), (<<"x">>)>>


(***************************************************************************)
(* main.py: process_master_submissions_batch.  What the API does with the  *)
(* request for one user is the environment's choice: it answers with       *)
(* submissions, it answers with success false, the request fails inside    *)
(* fetch_submissions (lines 112-118), or something else raises inside the  *)
(* try block.                                                              *)
(***************************************************************************)
MaxLines == 2    \* lines of master_submissions.txt

\* lines as save_owner_submission_users writes them, a line without a
\* provider and a comment line
BatchLineSet ==
    { <<"a", ",", "x", "\n">>, <<"b", ",">> \o Github \o <<"\n">>,
      <<"b", "\n">>, <<"#", "a", "\n">> }

RECURSIVE BatchContents(_)
BatchContents(n) ==
    IF n = 0 THEN {<<>>}
    ELSE BatchContents(n - 1)
             \cup {c \o l : c \in BatchContents(n - 1), l \in BatchLineSet}

InitBatch ==
    /\ pc = "batch"
    /\ GetIdle
    /\ file \in {<<>>} \cup {[content |-> c] : c \in BatchContents(MaxLines)}
    /\ attempted = <<>>
    /\ start_date = <<>> /\ end_date = <<>> /\ printed = <<>>
    /\ ValidateIdle /\ FilterIdle /\ ExtractIdle /\ CallIdle

\* lines 396-404: the users are read; arg holds them while the loop runs
ReadBatch ==
    /\ pc = "batch"
    /\ LET r == read_master_submissions_file(file)
       IN  /\ arg' = r.ret
           /\ printed' = printed \o r.out
                            \o (IF r.ret = <<>> THEN <<"No users found">> ELSE <<>>)
           /\ pc' = IF r.ret = <<>> THEN "batch_returned" ELSE "batch_loop"
    /\ idx' = 1
    /\ UNCHANGED <<file, attempted, get_page, get_results, sent, ret, response,
                   sub, submissions, start_date, end_date, filtered, student,
                   forks, issues, issue_idx, fetched, all_submissions>>

\* lines 406-435: the fetch for the user returns data, which is formatted
BatchFetched ==
    /\ pc = "batch_loop"
    /\ idx <= Len(arg)
    /\ attempted' = Append(attempted, arg[idx])
    /\ idx' = idx + 1
    /\ UNCHANGED <<file, get_page, get_results, sent, arg, ret, response, pc,
                   sub, submissions, start_date, end_date, filtered, printed,
                   student, forks, issues, issue_idx, fetched, all_submissions>>

\* lines 430-432: the API answers with success false
BatchApiError ==
    /\ pc = "batch_loop"
    /\ idx <= Len(arg)
    /\ attempted' = Append(attempted, arg[idx])
    /\ printed' = Append(printed, "API returned error for")
    /\ idx' = idx + 1
    /\ UNCHANGED <<file, get_page, get_results, sent, arg, ret, response, pc,
                   sub, submissions, start_date, end_date, filtered, student,
                   forks, issues, issue_idx, fetched, all_submissions>>

\* lines 437-439: an Exception raised in the try block
BatchRaised ==
    /\ pc = "batch_loop"
    /\ idx <= Len(arg)
    /\ attempted' = Append(attempted, arg[idx])
    /\ printed' = Append(printed, "Error processing")
    /\ idx' = idx + 1
    /\ UNCHANGED <<file, get_page, get_results, sent, arg, ret, response, pc,
                   sub, submissions, start_date, end_date, filtered, student,
                   forks, issues, issue_idx, fetched, all_submissions>>

\* lines 112-118: the request fails; fetch_submissions prints the error and
\* calls sys.exit(1), and SystemExit is no Exception
BatchFetchFailed ==
    /\ pc = "batch_loop"
    /\ idx <= Len(arg)
    /\ attempted' = Append(attempted, arg[idx])
    /\ printed' = Append(printed, "Error fetching submissions")
    /\ pc' = "exit"
    /\ UNCHANGED <<file, get_page, get_results, sent, arg, ret, response, sub,
                   submissions, start_date, end_date, filtered, student, forks,
                   idx, issues, issue_idx, fetched, all_submissions>>

\* lines 441-443
BatchDone ==
    /\ pc = "batch_loop"
    /\ idx > Len(arg)
    /\ printed' = Append(printed, "Completed processing")
    /\ pc' = "batch_returned"
    /\ UNCHANGED <<file, attempted, get_page, get_results, sent, arg, ret,
                   response, sub, submissions, start_date, end_date, filtered,
                   student, forks, idx, issues, issue_idx, fetched,
                   all_submissions>>

NextBatch ==
    \/ ReadBatch
    \/ BatchFetched
    \/ BatchApiError
    \/ BatchRaised
    \/ BatchFetchFailed
    \/ BatchDone

SpecBatch == InitBatch /\ [][NextBatch]_vars

IsPrefix(a, b) == Len(a) <= Len(b) /\ a = SubSeq(b, 1, Len(a))

\* C29: the batch attempts a fetch for the users of the side file once
\* each and in file order, and when it ends a fetch was attempted for every
\* one of them: a failed fetch or an API error for one user does not keep
\* the users after it from being processed.
C29_EveryUserAttempted ==
    pc # "batch" =>
        /\ IsPrefix(attempted, arg)
        /\ pc \in {"batch_returned", "exit"} => attempted = arg

=============================================================================
